---------------------------- MODULE Spec2Model ----------------------------
(***************************************************************************)
(* A model of superneuromat's NeuromorphicModel: a discrete-time leaky     *)
(* integrate-and-fire network with refractory periods, chained synaptic    *)
(* delays and STDP learning.  The object is the record snn; every public   *)
(* method is an operator on such records (named as in the source) and an   *)
(* action that applies it.  Python lists are sequences: the element of     *)
(* neuron id n is at index n + 1.  Amplitudes, weights and states are      *)
(* integers; np.inf is the sentinel Inf.                                   *)
(***************************************************************************)
EXTENDS Integers, Sequences, FiniteSets, TLC

VARIABLES
    snn,                  \* the NeuromorphicModel object (its canonical lists)
    last_used_backend,    \* self._last_used_backend
    err,                  \* the exception the last call raised, "" when it returned
    now,                  \* history: ticks simulated since construction
    sched,                \* history: every add_spike call, by absolute tick
    trace,                \* history: what each logged tick computed, aligned with spike_train
    created,              \* history: the arguments of every successful create_synapse call
    ref,                  \* the reference object of the delay refinement (manual relay chain)
    numba,                \* the module global numba: TRUE when the import succeeded
    call                  \* history: the last simulate call given a callback, and its invocations

vars == <<snn, last_used_backend, err, now, sched, trace, created, ref, numba, call>>

\* np.inf, the default leak of create_neuron
Inf == 1000000000

Max2(a, b) == IF a >= b THEN a ELSE b
Min2(a, b) == IF a <= b THEN a ELSE b

SetMax(S) == CHOOSE x \in S : \A y \in S : y <= x

RECURSIVE SumUpTo(_, _)
\* f[1] + ... + f[n]
SumUpTo(f, n) == IF n = 0 THEN 0 ELSE f[n] + SumUpTo(f, n - 1)

\* any(xs) of Python on a list of numbers
AnyNonZero(xs) == \E i \in 1..Len(xs) : xs[i] # 0

\* any(xs) of Python on a list of booleans
AnyTrue(xs) == \E i \in 1..Len(xs) : xs[i]

(***************************************************************************)
(* Construction                                                            *)
(***************************************************************************)

\* class attributes of NeuromorphicModel
gpu_threshold == 10000
jit_threshold == 1000

\* the dense working arrays (_internal_states, _weights, _spikes, _input_spikes,
\* ...) before any setup: __init__ creates none of them
NoArrays == [ built |-> FALSE, d |-> << >>, input_spikes |-> << >> ]

\* NeuromorphicModel.__init__ where no CUDA device is available (self.gpu is
\* numba and cuda.is_available()); the field arrays holds the dense working
\* arrays where they outlive a call, that is under manual setup
EmptyModel ==
    [ neuron_thresholds |-> << >>,
      neuron_leaks |-> << >>,
      neuron_states |-> << >>,
      neuron_reset_states |-> << >>,
      neuron_refractory_periods |-> << >>,
      neuron_refractory_periods_state |-> << >>,
      pre_synaptic_neuron_ids |-> << >>,
      post_synaptic_neuron_ids |-> << >>,
      synaptic_weights |-> << >>,
      synaptic_delays |-> << >>,
      enable_stdp |-> << >>,
      input_spikes |-> << >>,
      spike_train |-> << >>,
      stdp |-> TRUE,
      stdp_Apos |-> << >>,
      stdp_Aneg |-> << >>,
      stdp_positive_update |-> TRUE,
      stdp_negative_update |-> TRUE,
      gpu |-> FALSE,
      backend |-> "auto",
      manual_setup |-> FALSE,
      arrays |-> NoArrays ]

num_neurons(m) == Len(m.neuron_thresholds)

num_synapses(m) == Len(m.pre_synaptic_neuron_ids)

\* the ValueError checks of create_neuron
create_neuron_raises(leak, refractory_period, refractory_state) ==
    \/ leak < 0
    \/ refractory_period < 0
    \/ refractory_state < 0

\* create_neuron, past its checks: one entry is appended to each neuron list
create_neuron(m, threshold, leak, reset_state, refractory_period, refractory_state, initial_state) ==
    [m EXCEPT
        !.neuron_thresholds = Append(@, threshold),
        !.neuron_leaks = Append(@, leak),
        !.neuron_reset_states = Append(@, reset_state),
        !.neuron_refractory_periods = Append(@, refractory_period),
        !.neuron_refractory_periods_state = Append(@, refractory_state),
        !.neuron_states = Append(@, initial_state)]

\* mutant: the proxy neuron is created with leak 0
create_neuron_default_leak_zero(m) == create_neuron(m, 0, 0, 0, 0, 0, 0)

\* create_neuron() with every parameter defaulted, as create_synapse calls it
create_neuron_default(m) == create_neuron(m, 0, Inf, 0, 0, 0, 0)

\* the ValueError checks of create_synapse
create_synapse_raises(pre_id, post_id, delay) ==
    \/ pre_id < 0
    \/ post_id < 0
    \/ delay <= 0

\* create_synapse with delay = 1: one entry is appended to each synapse list
create_synapse_direct(m, pre_id, post_id, weight, stdp_enabled) ==
    [m EXCEPT
        !.pre_synaptic_neuron_ids = Append(@, pre_id),
        !.post_synaptic_neuron_ids = Append(@, post_id),
        !.synaptic_weights = Append(@, weight),
        !.synaptic_delays = Append(@, 1),
        !.enable_stdp = Append(@, stdp_enabled)]

RECURSIVE create_synapse_chain_one_more(_, _, _)
\* mutant: the loop runs once more (range(delay) instead of range(delay - 1))
create_synapse_chain_one_more(m, pre_id, hops) ==
    IF hops = -1
    THEN [model |-> m, pre_id |-> pre_id]
    ELSE LET m1 == create_neuron_default(m)
             temp_id == num_neurons(m1) - 1
             m2 == create_synapse_direct(m1, pre_id, temp_id, 1, FALSE)
         IN  create_synapse_chain_one_more(m2, temp_id, hops - 1)

RECURSIVE create_synapse_chain(_, _, _)
\* the for loop of create_synapse: hops proxy neurons, each fed by a weight-1 synapse;
\* the result is the model and the id of the last proxy
create_synapse_chain(m, pre_id, hops) ==
    IF hops = 0
    THEN [model |-> m, pre_id |-> pre_id]
    ELSE LET m1 == create_neuron_default(m)
             temp_id == num_neurons(m1) - 1
             m2 == create_synapse_direct(m1, pre_id, temp_id, 1, FALSE)
         IN  create_synapse_chain(m2, temp_id, hops - 1)

\* mutant: pre_id is not moved along the chain, the last synapse starts at
\* the presynaptic neuron itself
create_synapse_from_pre(m, pre_id, post_id, weight, delay, stdp_enabled) ==
    IF delay = 1
    THEN create_synapse_direct(m, pre_id, post_id, weight, stdp_enabled)
    ELSE LET c == create_synapse_chain(m, pre_id, delay - 1)
         IN  create_synapse_direct(c.model, pre_id, post_id, weight, stdp_enabled)

\* create_synapse, past its checks
create_synapse(m, pre_id, post_id, weight, delay, stdp_enabled) ==
    IF delay = 1
    THEN create_synapse_direct(m, pre_id, post_id, weight, stdp_enabled)
    ELSE LET c == create_synapse_chain(m, pre_id, delay - 1)
         IN  create_synapse_direct(c.model, c.pre_id, post_id, weight, stdp_enabled)

\* what create_synapse returns, on the model m it leaves: the id of
\* Synapse(self, self.num_synapses - 1)
create_synapse_return(m) == num_synapses(m) - 1

\* the ValueError checks of add_spike
add_spike_raises(time, neuron_id) ==
    \/ time < 0
    \/ neuron_id < 0

\* input_spikes is a dict: a function from its keys to the list of <<nid, value>>
\* pairs added under the key (the source keeps the two columns "nids" and "values")
add_spike(m, time, neuron_id, value) ==
    LET d == m.input_spikes
        keys == DOMAIN d
    IN  [m EXCEPT !.input_spikes =
            [t \in keys \cup {time} |->
                IF t = time
                THEN (IF t \in keys THEN Append(d[t], <<neuron_id, value>>)
                                    ELSE << <<neuron_id, value>> >>)
                ELSE d[t]]]

\* the checks of stdp_setup, in the order of the source
stdp_setup_raises(m, time_steps, Apos, Aneg, positive_update, negative_update) ==
    \/ time_steps <= 0
    \/ positive_update /\ Len(Apos) # time_steps
    \/ negative_update /\ Len(Aneg) # time_steps
    \/ ~AnyTrue(m.enable_stdp)

stdp_setup(m, Apos, Aneg, positive_update, negative_update) ==
    [m EXCEPT
        !.stdp = TRUE,
        !.stdp_Apos = Apos,
        !.stdp_Aneg = Aneg,
        !.stdp_positive_update = positive_update,
        !.stdp_negative_update = negative_update]

\* the property stdp_time_steps
stdp_time_steps(m) ==
    IF m.stdp_positive_update THEN Len(m.stdp_Apos)
    ELSE IF m.stdp_negative_update THEN Len(m.stdp_Aneg)
    ELSE 0

(***************************************************************************)
(* Dense working arrays: _setup, setup_input_spikes, devec,                *)
(* consume_input_spikes                                                    *)
(***************************************************************************)

\* the index of the last synapse stored for the pair (i, j), 0 when there is none:
\* mat[pre_ids, post_ids] = values assigns in list order, so the last one stays
last_synapse(m, i, j) ==
    LET S == {s \in 1..num_synapses(m) :
                 /\ m.pre_synaptic_neuron_ids[s] = i
                 /\ m.post_synaptic_neuron_ids[s] = j}
    IN  IF S = {} THEN 0 ELSE SetMax(S)

\* mat[...] = ... raises IndexError when a stored id is not below num_neurons
synapse_index_error(m) ==
    \E s \in 1..num_synapses(m) :
        \/ m.pre_synaptic_neuron_ids[s] >= num_neurons(m)
        \/ m.post_synaptic_neuron_ids[s] >= num_neurons(m)

\* weight_mat, dense path (self._use_sparse is never set)
weight_mat(m) ==
    [i \in 1..num_neurons(m) |-> [j \in 1..num_neurons(m) |->
        LET s == last_synapse(m, i - 1, j - 1)
        IN  IF s = 0 THEN 0 ELSE m.synaptic_weights[s]]]

\* stdp_enabled_mat, dense path
stdp_enabled_mat(m) ==
    [i \in 1..num_neurons(m) |-> [j \in 1..num_neurons(m) |->
        LET s == last_synapse(m, i - 1, j - 1)
        IN  IF s = 0 THEN 0 ELSE (IF m.enable_stdp[s] THEN 1 ELSE 0)]]

\* mutant: every call starts from a zero spike vector
setup_spikes_zero(m) == [n \in 1..num_neurons(m) |-> 0]

\* the vector self._spikes that _setup leaves: the last logged vector, or zeros
setup_spikes(m) ==
    IF Len(m.spike_train) > 0
    THEN m.spike_train[Len(m.spike_train)]
    ELSE [n \in 1..num_neurons(m) |-> 0]

\* _setup: the dense arrays built from the canonical lists
setup(m) ==
    LET anystdp == m.stdp /\ AnyTrue(m.enable_stdp)
        dpos == anystdp /\ m.stdp_positive_update /\ AnyNonZero(m.stdp_Apos)
        dneg == anystdp /\ m.stdp_negative_update /\ AnyNonZero(m.stdp_Aneg)
    IN  [ neuron_thresholds |-> m.neuron_thresholds,
          neuron_leaks |-> m.neuron_leaks,
          neuron_reset_states |-> m.neuron_reset_states,
          neuron_refractory_periods_original |-> m.neuron_refractory_periods,
          internal_states |-> m.neuron_states,
          neuron_refractory_periods |-> m.neuron_refractory_periods_state,
          weights |-> weight_mat(m),
          do_positive_update |-> dpos,
          do_negative_update |-> dneg,
          do_stdp |-> dpos \/ dneg,
          stdp_enabled_synapses |-> stdp_enabled_mat(m),
          stdp_Apos |-> m.stdp_Apos,
          stdp_Aneg |-> m.stdp_Aneg,
          spikes |-> setup_spikes(m),
          spike_train |-> m.spike_train,
          trace |-> << >> ]

\* an input row that adds up the amplitudes scheduled for one neuron and tick
input_amplitude_sum(m, t, neuron_id) ==
    IF t \notin DOMAIN m.input_spikes THEN 0
    ELSE LET l == m.input_spikes[t]
         IN  SumUpTo([i \in 1..Len(l) |-> IF l[i][1] = neuron_id THEN l[i][2] ELSE 0],
                     Len(l))

\* the amplitude setup_input_spikes leaves at [t][neuron_id]: the entries of
\* input_spikes[t] are written in order, so the last one for the neuron stays
input_amplitude(m, t, neuron_id) ==
    IF t \notin DOMAIN m.input_spikes THEN 0
    ELSE LET l == m.input_spikes[t]
             S == {i \in 1..Len(l) : l[i][1] = neuron_id}
         IN  IF S = {} THEN 0 ELSE l[SetMax(S)][2]

\* setup_input_spikes writes every key t <= time_steps; a neuron id that is not
\* below num_neurons raises IndexError
input_index_error(m, time_steps) ==
    \E t \in DOMAIN m.input_spikes :
        /\ t <= time_steps
        /\ \E i \in 1..Len(m.input_spikes[t]) : m.input_spikes[t][i][1] >= num_neurons(m)

\* setup_input_spikes: rows 0 .. time_steps of self._input_spikes
setup_input_spikes(m, time_steps) ==
    [t \in 0..time_steps |-> [n \in 1..num_neurons(m) |-> input_amplitude(m, t, n - 1)]]

\* devec: the dense arrays written back to the canonical lists
devec(m, d) ==
    [m EXCEPT
        !.neuron_states = d.internal_states,
        !.neuron_refractory_periods_state = d.neuron_refractory_periods,
        !.synaptic_weights =
            IF d.do_stdp
            THEN [s \in 1..num_synapses(m) |->
                    d.weights[m.pre_synaptic_neuron_ids[s] + 1][m.post_synaptic_neuron_ids[s] + 1]]
            ELSE @]

\* mutant: the spikes of the ticks that were played are kept, re-keyed
consume_input_spikes_keep(m, time_steps) ==
    [m EXCEPT !.input_spikes =
        [k \in {Max2(t - time_steps, 0) : t \in DOMAIN m.input_spikes} |->
            m.input_spikes[CHOOSE t \in DOMAIN m.input_spikes : Max2(t - time_steps, 0) = k]]]

\* consume_input_spikes
consume_input_spikes(m, time_steps) ==
    [m EXCEPT !.input_spikes =
        [k \in {t - time_steps : t \in {u \in DOMAIN m.input_spikes : u >= time_steps}} |->
            m.input_spikes[k + time_steps]]]

(***************************************************************************)
(* One tick of simulate_cpu                                                *)
(***************************************************************************)

\* mutant: only the leak from above is applied
apply_leak_above_only(states, reset_states, leaks) ==
    [n \in DOMAIN states |->
        IF states[n] > reset_states[n]
        THEN Max2(states[n] - leaks[n], reset_states[n])
        ELSE states[n]]

\* Leak: the state moves towards the reset state by leak, first from above, then
\* from below; with leak = Inf the clamp leaves the reset state itself
apply_leak(states, reset_states, leaks) ==
    LET down == [n \in DOMAIN states |->
                    IF states[n] > reset_states[n]
                    THEN Max2(states[n] - leaks[n], reset_states[n])
                    ELSE states[n]]
    IN  [n \in DOMAIN states |->
            IF down[n] < reset_states[n]
            THEN Min2(down[n] + leaks[n], reset_states[n])
            ELSE down[n]]

\* mutant: self._weights @ self._spikes, the matrix not transposed
synaptic_input_not_transposed(weights, spikes, j) ==
    SumUpTo([i \in 1..Len(spikes) |-> weights[j][i] * spikes[i]], Len(spikes))

\* (self._weights.T @ self._spikes)[j]
synaptic_input(weights, spikes, j) ==
    SumUpTo([i \in 1..Len(spikes) |-> weights[i][j] * spikes[i]], Len(spikes))

\* self._internal_states + self._input_spikes[tick] + (self._weights.T @ self._spikes)
integrate(states, row, weights, spikes) ==
    [n \in DOMAIN states |-> states[n] + row[n] + synaptic_input(weights, spikes, n)]

\* mutant: a neuron whose state equals its threshold fires
compute_spikes_not_strict(states, thresholds) ==
    [n \in DOMAIN states |-> IF states[n] >= thresholds[n] THEN 1 ELSE 0]

\* np.greater(self._internal_states, self._neuron_thresholds)
compute_spikes(states, thresholds) ==
    [n \in DOMAIN states |-> IF states[n] > thresholds[n] THEN 1 ELSE 0]

\* mutant: np.greater_equal, so that a counter at 0 gates as well
refractory_indices_inclusive(refractory_periods) ==
    [n \in DOMAIN refractory_periods |-> refractory_periods[n] >= 0]

\* np.greater(self._neuron_refractory_periods, 0)
refractory_indices(refractory_periods) ==
    [n \in DOMAIN refractory_periods |-> refractory_periods[n] > 0]

\* mutant: the vector is left as the raw fire decision
gate_spikes_none(spikes, indices) == spikes

\* self._spikes[indices] = 0
gate_spikes(spikes, indices) ==
    [n \in DOMAIN spikes |-> IF indices[n] THEN 0 ELSE spikes[n]]

\* mutant: the period is armed before the decrement, which then also takes one
\* tick off the period just armed
update_refractory_arm_first(refractory_periods, indices, spikes, original) ==
    [n \in DOMAIN refractory_periods |->
        LET armed == IF spikes[n] = 1 THEN original[n] ELSE refractory_periods[n]
        IN  IF armed > 0 THEN armed - 1 ELSE armed]

\* mutant: a spike arms the counter with one tick more than the period
update_refractory_arm_longer(refractory_periods, indices, spikes, original) ==
    [n \in DOMAIN refractory_periods |->
        IF spikes[n] = 1 THEN original[n] + 1
        ELSE IF indices[n] THEN refractory_periods[n] - 1
        ELSE refractory_periods[n]]

\* self._neuron_refractory_periods[indices] -= 1, then [mask] = original[mask]
update_refractory(refractory_periods, indices, spikes, original) ==
    [n \in DOMAIN refractory_periods |->
        IF spikes[n] = 1 THEN original[n]
        ELSE IF indices[n] THEN refractory_periods[n] - 1
        ELSE refractory_periods[n]]

\* self._internal_states[mask] = self._neuron_reset_states[mask]
reset_states_of(states, spikes, reset_states) ==
    [n \in DOMAIN states |-> IF spikes[n] = 1 THEN reset_states[n] ELSE states[n]]

\* t = min(self.stdp_time_steps, len(self.spike_train) - 1)
stdp_window(time_steps, train_len) == Min2(time_steps, train_len - 1)

\* mutant: every lag of A contributes, a lag without a logged vector as zeros
stdp_sum_padded(train, t, A, a, b, negative) ==
    LET L == Len(train)
    IN  SumUpTo([i \in 1..Len(A) |->
                    LET c == IF L - i >= 1 THEN train[L - i][a] * train[L][b] ELSE 0
                    IN  A[i] * (IF negative THEN 1 - c ELSE c)], Len(A))

\* the sum over the t rows of (update_synapses.T * A[0:t][::-1]).T at [a][b]:
\* A[i] meets the vector logged i + 1 ticks before the last one; with negative
\* the factor is 1 - update_synapses
stdp_sum(train, t, A, a, b, negative) ==
    LET L == Len(train)
    IN  SumUpTo([i \in 1..t |->
                    LET c == train[L - i][a] * train[L][b]
                    IN  A[i] * (IF negative THEN 1 - c ELSE c)], t)
\* an STDP update that leaves out the mask of STDP-enabled synapses
stdp_update_unmasked(d, train, t) ==
    IF d.do_stdp /\ t > 0
    THEN [a \in DOMAIN d.weights |-> [b \in DOMAIN d.weights |->
            d.weights[a][b]
            + (IF d.do_positive_update
               THEN stdp_sum(train, t, d.stdp_Apos, a, b, FALSE)
               ELSE 0)
            + (IF d.do_negative_update
               THEN stdp_sum(train, t, d.stdp_Aneg, a, b, TRUE)
               ELSE 0)]]
    ELSE d.weights

\* the STDP operations of one tick on self._weights
stdp_update(d, train, t) ==
    IF d.do_stdp /\ t > 0
    THEN [a \in DOMAIN d.weights |-> [b \in DOMAIN d.weights |->
            d.weights[a][b]
            + (IF d.do_positive_update
               THEN stdp_sum(train, t, d.stdp_Apos, a, b, FALSE) * d.stdp_enabled_synapses[a][b]
               ELSE 0)
            + (IF d.do_negative_update
               THEN stdp_sum(train, t, d.stdp_Aneg, a, b, TRUE) * d.stdp_enabled_synapses[a][b]
               ELSE 0)]]
    ELSE d.weights

\* mutant: the tick integrates first and leaks the sum
simulate_cpu_tick_leak_last(d, row, time_steps) ==
    LET states == apply_leak(integrate(d.internal_states, row, d.weights, d.spikes),
                             d.neuron_reset_states, d.neuron_leaks)
        raw == compute_spikes(states, d.neuron_thresholds)
        indices == refractory_indices(d.neuron_refractory_periods)
        spikes == gate_spikes(raw, indices)
        refr == update_refractory(d.neuron_refractory_periods, indices, spikes,
                                  d.neuron_refractory_periods_original)
        after == reset_states_of(states, spikes, d.neuron_reset_states)
        train == Append(d.spike_train, spikes)
        t == stdp_window(time_steps, Len(train))
        w == stdp_update(d, train, t)
    IN  [d EXCEPT
            !.internal_states = after,
            !.neuron_refractory_periods = refr,
            !.spikes = spikes,
            !.spike_train = train,
            !.weights = w,
            !.trace = Append(@,
                [ before |-> d.internal_states,
                  input |-> row,
                  synaptic |-> [n \in DOMAIN states |-> synaptic_input(d.weights, d.spikes, n)],
                  integrated |-> states,
                  raw |-> raw,
                  refractory_in |-> d.neuron_refractory_periods,
                  lags |-> IF d.do_stdp THEN t ELSE 0,
                  weights_in |-> d.weights,
                  weights_out |-> w ])]

\* mutant: the state is reset on the raw fire decision, gated or not
simulate_cpu_tick_reset_raw(d, row, time_steps) ==
    LET leaked == apply_leak(d.internal_states, d.neuron_reset_states, d.neuron_leaks)
        states == integrate(leaked, row, d.weights, d.spikes)
        raw == compute_spikes(states, d.neuron_thresholds)
        indices == refractory_indices(d.neuron_refractory_periods)
        spikes == gate_spikes(raw, indices)
        refr == update_refractory(d.neuron_refractory_periods, indices, spikes,
                                  d.neuron_refractory_periods_original)
        after == reset_states_of(states, raw, d.neuron_reset_states)
        train == Append(d.spike_train, spikes)
        t == stdp_window(time_steps, Len(train))
        w == stdp_update(d, train, t)
    IN  [d EXCEPT
            !.internal_states = after,
            !.neuron_refractory_periods = refr,
            !.spikes = spikes,
            !.spike_train = train,
            !.weights = w,
            !.trace = Append(@,
                [ before |-> d.internal_states,
                  input |-> row,
                  synaptic |-> [n \in DOMAIN states |-> synaptic_input(d.weights, d.spikes, n)],
                  integrated |-> states,
                  raw |-> raw,
                  refractory_in |-> d.neuron_refractory_periods,
                  lags |-> IF d.do_stdp THEN t ELSE 0,
                  weights_in |-> d.weights,
                  weights_out |-> w ])]

\* the body of the for loop of simulate_cpu, for one tick with input row `row`
simulate_cpu_tick(d, row, time_steps) ==
    LET leaked == apply_leak(d.internal_states, d.neuron_reset_states, d.neuron_leaks)
        states == integrate(leaked, row, d.weights, d.spikes)
        raw == compute_spikes(states, d.neuron_thresholds)
        indices == refractory_indices(d.neuron_refractory_periods)
        spikes == gate_spikes(raw, indices)
        refr == update_refractory(d.neuron_refractory_periods, indices, spikes,
                                  d.neuron_refractory_periods_original)
        after == reset_states_of(states, spikes, d.neuron_reset_states)
        train == Append(d.spike_train, spikes)
        t == stdp_window(time_steps, Len(train))
        w == stdp_update(d, train, t)
    IN  [d EXCEPT
            !.internal_states = after,
            !.neuron_refractory_periods = refr,
            !.spikes = spikes,
            !.spike_train = train,
            !.weights = w,
            !.trace = Append(@,
                [ before |-> d.internal_states,
                  input |-> row,
                  synaptic |-> [n \in DOMAIN states |-> synaptic_input(d.weights, d.spikes, n)],
                  integrated |-> states,
                  raw |-> raw,
                  refractory_in |-> d.neuron_refractory_periods,
                  lags |-> IF d.do_stdp THEN t ELSE 0,
                  weights_in |-> d.weights,
                  weights_out |-> w ])]

RECURSIVE simulate_cpu_loop(_, _, _, _, _)
\* for tick in range(time_steps): d.trace holds a record of each tick done
simulate_cpu_loop(d, input, tick, time_steps, stdp_steps) ==
    IF Len(d.trace) = time_steps THEN d
    ELSE simulate_cpu_loop(simulate_cpu_tick(d, input[tick], stdp_steps),
                           input, tick + 1, time_steps, stdp_steps)

\* what makes simulate_cpu raise before its first tick is logged: IndexError in
\* _setup or setup_input_spikes, or the shape mismatch of W.T @ spikes when
\* neurons were added after the last logged tick
simulate_cpu_error(m, time_steps) ==
    IF synapse_index_error(m) THEN "IndexError"
    ELSE IF input_index_error(m, time_steps) THEN "IndexError"
    ELSE IF Len(setup_spikes(m)) # num_neurons(m) THEN "ValueError"
    ELSE ""

\* simulate_cpu without manual setup: the dense state after the last tick
simulate_cpu_dense(m, time_steps) ==
    simulate_cpu_loop(setup(m), setup_input_spikes(m, time_steps), 0, time_steps,
                      stdp_time_steps(m))

\* the end of simulate_cpu without manual setup: the log is self.spike_train
\* itself, then devec and consume_input_spikes
simulate_cpu_finish(m, d, time_steps) ==
    consume_input_spikes(devec([m EXCEPT !.spike_train = d.spike_train], d), time_steps)

\* simulate_cpu without manual setup: the object after the call (unchanged when
\* the call raises)
simulate_cpu(m, time_steps) ==
    IF simulate_cpu_error(m, time_steps) # "" THEN m
    ELSE simulate_cpu_finish(m, simulate_cpu_dense(m, time_steps), time_steps)

\* the attribute assignment model.manual_setup = True
set_manual_setup(m) == [m EXCEPT !.manual_setup = TRUE]

\* the dense record as the object keeps it between calls: the log and the
\* per-tick record belong to the call, not to the arrays
kept_arrays(d) == [d EXCEPT !.spike_train = << >>, !.trace = << >>]

\* the public setup(): _setup() builds every dense array from the canonical
\* lists and leaves _input_spikes as a single row of zeros
public_setup_error(m) == IF synapse_index_error(m) THEN "IndexError" ELSE ""

public_setup(m) ==
    IF public_setup_error(m) # "" THEN m
    ELSE [m EXCEPT !.arrays =
            [ built |-> TRUE,
              d |-> kept_arrays(setup(m)),
              input_spikes |-> [t \in 0..0 |-> [n \in 1..num_neurons(m) |-> 0]] ]]

\* setup_input_spikes(time_steps) called by the user: _input_spikes becomes the
\* time_steps + 1 rows of the schedule
manual_setup_input_spikes_error(m, time_steps) ==
    IF input_index_error(m, time_steps) THEN "IndexError" ELSE ""

manual_setup_input_spikes(m, time_steps) ==
    IF manual_setup_input_spikes_error(m, time_steps) # "" THEN m
    ELSE [m EXCEPT !.arrays.input_spikes = setup_input_spikes(m, time_steps)]

\* simulate_cpu under manual setup, arrays of the current size: the ticks that
\* run before the loop ends or _input_spikes[tick] is out of range
manual_ticks(m, time_steps) ==
    Min2(time_steps, Cardinality(DOMAIN m.arrays.input_spikes))

\* simulate_cpu under manual setup: AttributeError at the first tick when
\* setup() never ran, IndexError at the tick that has no row of _input_spikes
simulate_cpu_manual_error(m, time_steps) ==
    IF ~m.arrays.built THEN "AttributeError"
    ELSE IF manual_ticks(m, time_steps) < time_steps THEN "IndexError"
    ELSE ""

\* simulate_cpu under manual setup: the loop starts from the arrays the object
\* holds, no _setup() and no setup_input_spikes()
simulate_cpu_manual_dense(m, time_steps) ==
    simulate_cpu_loop([m.arrays.d EXCEPT !.spike_train = m.spike_train],
                      m.arrays.input_spikes, 0, manual_ticks(m, time_steps),
                      stdp_time_steps(m))

\* simulate_cpu that runs devec at its end although manual_setup is set
simulate_cpu_manual_devec(m, time_steps) ==
    IF ~m.arrays.built THEN m
    ELSE LET d == simulate_cpu_manual_dense(m, time_steps)
         IN  [devec([m EXCEPT !.spike_train = d.spike_train], d)
                EXCEPT !.arrays.d = kept_arrays(d)]

\* simulate_cpu under manual setup: the object after the call. The log is
\* self.spike_train itself; neither devec nor consume_input_spikes runs. The
\* tick that raises IndexError has already leaked the internal states in place.
simulate_cpu_manual(m, time_steps) ==
    IF ~m.arrays.built THEN m
    ELSE LET d == simulate_cpu_manual_dense(m, time_steps)
             e == IF manual_ticks(m, time_steps) < time_steps
                  THEN [d EXCEPT !.internal_states =
                            apply_leak(d.internal_states, d.neuron_reset_states,
                                       d.neuron_leaks)]
                  ELSE d
         IN  [m EXCEPT !.spike_train = d.spike_train, !.arrays.d = kept_arrays(e)]

\* a reset that puts every neuron at its reset state
reset_to_reset_states(m) ==
    [m EXCEPT
        !.neuron_states = m.neuron_reset_states,
        !.neuron_refractory_periods_state = [n \in 1..num_neurons(m) |-> 0],
        !.spike_train = << >>]

\* zero_neuron_states, zero_refractory_periods, clear_spike_train
reset(m) ==
    [m EXCEPT
        !.neuron_states = [n \in 1..num_neurons(m) |-> 0],
        !.neuron_refractory_periods_state = [n \in 1..num_neurons(m) |-> 0],
        !.spike_train = << >>]

(***************************************************************************)
(* simulate_cpu_jit                                                        *)
(***************************************************************************)

\* the parameters lif_jit declares (none has a default)
lif_jit_parameters == 14

\* the arguments simulate_cpu_jit passes to lif_jit
lif_jit_arguments == 10

\* what makes simulate_cpu_jit raise: the errors of the setup, then the call
\* of lif_jit in the first tick, which binds its arguments to its parameters
simulate_cpu_jit_error(m, time_steps) ==
    IF synapse_index_error(m) THEN "IndexError"
    ELSE IF input_index_error(m, time_steps) THEN "IndexError"
    ELSE IF lif_jit_arguments # lif_jit_parameters THEN "TypeError"
    ELSE IF Len(setup_spikes(m)) # num_neurons(m) THEN "ValueError"
    ELSE ""

\* apply_leak_jit
apply_leak_jit(states, reset_states, leaks) ==
    LET down == [n \in DOMAIN states |->
                    IF states[n] > reset_states[n]
                    THEN Max2(states[n] - leaks[n], reset_states[n])
                    ELSE states[n]]
    IN  [n \in DOMAIN states |->
            IF down[n] < reset_states[n]
            THEN Min2(down[n] + leaks[n], reset_states[n])
            ELSE down[n]]

\* lif_jit: states, spikes and refractory_periods are modified in place
lif_jit(d, row) ==
    LET leaked == apply_leak_jit(d.internal_states, d.neuron_reset_states, d.neuron_leaks)
        states == [n \in DOMAIN leaked |->
                      leaked[n] + row[n] + synaptic_input(d.weights, d.spikes, n)]
        raw == [n \in DOMAIN states |-> IF states[n] > d.neuron_thresholds[n] THEN 1 ELSE 0]
        indices == [n \in DOMAIN states |-> d.neuron_refractory_periods[n] > 0]
        spikes == [n \in DOMAIN states |-> IF indices[n] THEN 0 ELSE raw[n]]
    IN  [d EXCEPT
            !.spikes = spikes,
            !.neuron_refractory_periods =
                [n \in DOMAIN states |->
                    IF spikes[n] = 1 THEN d.neuron_refractory_periods_original[n]
                    ELSE IF indices[n] THEN @[n] - 1 ELSE @[n]],
            !.internal_states =
                [n \in DOMAIN states |->
                    IF spikes[n] = 1 THEN d.neuron_reset_states[n] ELSE states[n]]]

\* stdp_update_jit, stdp_update_jit_apos, stdp_update_jit_aneg: lag i pairs
\* spike_train[~i - 1] with spike_train[-1]
stdp_update_jit(d, train, tsteps) ==
    [a \in DOMAIN d.weights |-> [b \in DOMAIN d.weights |->
        d.weights[a][b]
        + SumUpTo([i \in 1..tsteps |->
                    LET c == train[Len(train) - i][a] * train[Len(train)][b]
                    IN  (IF d.do_positive_update
                         THEN d.stdp_Apos[i] * c * d.stdp_enabled_synapses[a][b] ELSE 0)
                      + (IF d.do_negative_update
                         THEN d.stdp_Aneg[i] * (1 - c) * d.stdp_enabled_synapses[a][b] ELSE 0)],
                  tsteps)]]

\* the body of the for loop of simulate_cpu_jit
simulate_cpu_jit_tick(d, row, time_steps) ==
    LET l == lif_jit(d, row)
        train == Append(d.spike_train, l.spikes)
        t == Min2(time_steps, Len(train) - 1)
        w == IF d.do_stdp THEN stdp_update_jit(l, train, t) ELSE d.weights
        leaked == apply_leak_jit(d.internal_states, d.neuron_reset_states, d.neuron_leaks)
        syn == [n \in DOMAIN leaked |-> synaptic_input(d.weights, d.spikes, n)]
        states == [n \in DOMAIN leaked |-> leaked[n] + row[n] + syn[n]]
    IN  [l EXCEPT
            !.spike_train = train,
            !.weights = w,
            !.trace = Append(@,
                [ before |-> d.internal_states,
                  input |-> row,
                  synaptic |-> syn,
                  integrated |-> states,
                  raw |-> [n \in DOMAIN states |->
                              IF states[n] > d.neuron_thresholds[n] THEN 1 ELSE 0],
                  refractory_in |-> d.neuron_refractory_periods,
                  lags |-> IF d.do_stdp THEN t ELSE 0,
                  weights_in |-> d.weights,
                  weights_out |-> w ])]

RECURSIVE simulate_cpu_jit_loop(_, _, _, _, _)
\* for tick in range(time_steps): d.trace holds a record of each tick done
simulate_cpu_jit_loop(d, input, tick, time_steps, stdp_steps) ==
    IF Len(d.trace) = time_steps THEN d
    ELSE simulate_cpu_jit_loop(simulate_cpu_jit_tick(d, input[tick], stdp_steps),
                               input, tick + 1, time_steps, stdp_steps)

\* simulate_cpu_jit without manual setup: the dense state after the last tick
simulate_cpu_jit_dense(m, time_steps) ==
    simulate_cpu_jit_loop(setup(m), setup_input_spikes(m, time_steps), 0, time_steps,
                          stdp_time_steps(m))

\* simulate_cpu_jit without manual setup: the object after the call (unchanged
\* when the call raises)
simulate_cpu_jit(m, time_steps) ==
    IF simulate_cpu_jit_error(m, time_steps) # "" THEN m
    ELSE LET d == simulate_cpu_jit_dense(m, time_steps)
         IN  consume_input_spikes(
                 devec([m EXCEPT !.spike_train = d.spike_train], d), time_steps)


(***************************************************************************)
(* The calls as actions.  Each takes the arguments it may be called with;  *)
(* mirror says whether the reference object ref receives the same call.    *)
(***************************************************************************)

Neuron(threshold, leak, reset_state, refractory_period) ==
    [ threshold |-> threshold, leak |-> leak, reset_state |-> reset_state,
      refractory_period |-> refractory_period, refractory_state |-> 0,
      initial_state |-> 0 ]

new_neuron(m, k) ==
    create_neuron(m, k.threshold, k.leak, k.reset_state, k.refractory_period,
                  k.refractory_state, k.initial_state)

\* the spikes of a dict of lists, counted
spike_count(d) ==
    SumUpTo([i \in 1..Cardinality(DOMAIN d) |->
                Len(d[CHOOSE t \in DOMAIN d :
                        Cardinality({u \in DOMAIN d : u < t}) = i - 1])],
            Cardinality(DOMAIN d))

\* the history of add_spike calls: the same dict, keyed by absolute tick
record_spike(h, tick, neuron_id, value) ==
    [t \in DOMAIN h \cup {tick} |->
        IF t = tick
        THEN (IF t \in DOMAIN h THEN Append(h[t], <<neuron_id, value>>)
                                ELSE << <<neuron_id, value>> >>)
        ELSE h[t]]

CallCreateNeuron(kinds, mirror) ==
    \E k \in kinds :
        /\ ~create_neuron_raises(k.leak, k.refractory_period, k.refractory_state)
        /\ snn' = new_neuron(snn, k)
        /\ ref' = IF mirror THEN new_neuron(ref, k) ELSE ref
        /\ err' = ""
        /\ UNCHANGED <<numba, call, last_used_backend, now, sched, trace, created>>

\* whether the dict d holds the pair <<neuron_id, value>> under the key time
has_spike(d, time, neuron_id, value) ==
    /\ time \in DOMAIN d
    /\ \E i \in 1..Len(d[time]) : d[time][i] = <<neuron_id, value>>

\* menu: the <<time, neuron_id, value>> triples add_spike may be called with
CallAddSpike(menu, mirror) ==
    \E s \in menu :
        /\ ~add_spike_raises(s[1], s[2])
        /\ snn' = add_spike(snn, s[1], s[2], s[3])
        /\ ref' = IF mirror THEN add_spike(ref, s[1], s[2], s[3]) ELSE ref
        /\ sched' = record_spike(sched, now + s[1], s[2], s[3])
        /\ err' = ""
        /\ UNCHANGED <<numba, call, last_used_backend, now, trace, created>>

CallSimulateCpu(steps, mirror) ==
    \E time_steps \in steps :
        LET e == simulate_cpu_error(snn, time_steps)
            d == simulate_cpu_dense(snn, time_steps)
        IN  /\ time_steps > 0
            /\ last_used_backend' = "cpu"
            /\ err' = e
            /\ IF e = ""
               THEN /\ snn' = simulate_cpu_finish(snn, d, time_steps)
                    /\ trace' = trace \o d.trace
                    /\ now' = now + time_steps
               ELSE UNCHANGED <<numba, call, snn, trace, now>>
            /\ ref' = IF mirror THEN simulate_cpu(ref, time_steps) ELSE ref
            /\ UNCHANGED <<numba, call, sched, created>>

(***************************************************************************)
(* The GPU driver.  simulate_gpu is in neuromorphicmodel.py; the kernels   *)
(* it launches (post_synaptic, lif, stdp_update of gpu.py) are taken from  *)
(* the tick and STDP rules of the specification.                           *)
(***************************************************************************)

\* kernel post_synaptic: post_synapse[j] is the sum of weights[i][j] over the
\* neurons i with output_spikes[i] = 1
gpu_post_synaptic(weights, output_spikes) ==
    [j \in DOMAIN output_spikes |-> synaptic_input(weights, output_spikes, j)]

\* kernel lif: leak, integrate, fire, refractory gate, arm, reset
gpu_lif(d, row, post_synapse) ==
    LET leaked == apply_leak(d.internal_states, d.neuron_reset_states, d.neuron_leaks)
        states == [n \in DOMAIN leaked |-> leaked[n] + row[n] + post_synapse[n]]
        raw == compute_spikes(states, d.neuron_thresholds)
        indices == refractory_indices(d.neuron_refractory_periods)
        spikes == gate_spikes(raw, indices)
    IN  [ integrated |-> states,
          raw |-> raw,
          spikes |-> spikes,
          internal_states |-> reset_states_of(states, spikes, d.neuron_reset_states),
          neuron_refractory_periods |->
              update_refractory(d.neuron_refractory_periods, indices, spikes,
                                d.neuron_refractory_periods_original) ]

\* kernel stdp_update for one lag: on an enabled synapse apos when the pre
\* neuron spiked in old_spikes and the post neuron in output_spikes, else aneg
gpu_stdp_update(weights, old_spikes, output_spikes, stdp_enabled, apos, aneg) ==
    [a \in DOMAIN weights |-> [b \in DOMAIN weights |->
        LET c == old_spikes[a] * output_spikes[b]
        IN  weights[a][b] + stdp_enabled[a][b] * (apos * c + aneg * (1 - c))]]

RECURSIVE gpu_stdp_loop(_, _, _, _, _)
\* for i in range(min(tick, self.stdp_time_steps)), on the rows of
\* self._output_spikes: the vectors this call has produced
gpu_stdp_loop(d, out, tick, i, n) ==
    IF i >= n THEN d.weights
    ELSE gpu_stdp_loop(
            [d EXCEPT !.weights =
                gpu_stdp_update(d.weights, out[tick - i], out[tick + 1],
                                d.stdp_enabled_synapses, d.stdp_Apos[i + 1],
                                d.stdp_Aneg[i + 1])],
            out, tick, i + 1, n)

\* the body of the for loop of simulate_gpu at `tick`
simulate_gpu_tick(d, row, tick, stdp_steps) ==
    LET post_synapse == gpu_post_synaptic(d.weights, d.spikes)
        r == gpu_lif(d, row, post_synapse)
        out == Append(d.output_spikes, r.spikes)
        lags == IF d.do_stdp THEN Min2(tick, stdp_steps) ELSE 0
        w == gpu_stdp_loop(d, out, tick, 0, lags)
    IN  [d EXCEPT
            !.internal_states = r.internal_states,
            !.neuron_refractory_periods = r.neuron_refractory_periods,
            !.spikes = r.spikes,
            !.output_spikes = out,
            !.weights = w,
            !.trace = Append(@,
                [ before |-> d.internal_states,
                  input |-> row,
                  synaptic |-> post_synapse,
                  integrated |-> r.integrated,
                  raw |-> r.raw,
                  refractory_in |-> d.neuron_refractory_periods,
                  lags |-> lags,
                  weights_in |-> d.weights,
                  weights_out |-> w ])]

RECURSIVE simulate_gpu_loop(_, _, _, _, _)
\* for tick in range(time_steps): d.trace holds a record of each tick done
simulate_gpu_loop(d, input, tick, time_steps, stdp_steps) ==
    IF Len(d.trace) = time_steps THEN d
    ELSE simulate_gpu_loop(simulate_gpu_tick(d, input[tick], tick, stdp_steps),
                           input, tick + 1, time_steps, stdp_steps)

\* what simulate_gpu raises before its loop: ImportError of check_gpu,
\* IndexError in _setup or setup_input_spikes, the ValueError of the kernel
\* lengths, or the CudaSupportError of cuda.to_device without a device
simulate_gpu_error(m, nb, time_steps) ==
    IF ~nb THEN "ImportError: GPU support is not installed"
    ELSE IF synapse_index_error(m) THEN "IndexError"
    ELSE IF input_index_error(m, time_steps) THEN "IndexError"
    ELSE IF Len(m.stdp_Apos) # Len(m.stdp_Aneg)
    THEN "ValueError: apos and aneg must be the same length"
    ELSE IF ~m.gpu THEN "CudaSupportError"
    ELSE ""

\* the device arrays after the last tick: output_spikes starts as a row of
\* zeros, self._output_spikes collects the vectors of this call
simulate_gpu_dense(m, time_steps) ==
    simulate_gpu_loop(
        [setup(m) EXCEPT !.spikes = [n \in 1..num_neurons(m) |-> 0]]
            @@ [output_spikes |-> << >>],
        setup_input_spikes(m, time_steps), 0, time_steps, stdp_time_steps(m))

\* the end of simulate_gpu: spike_train.extend, then devec, and no
\* consume_input_spikes
simulate_gpu_finish(m, d) ==
    devec([m EXCEPT !.spike_train = @ \o d.output_spikes], d)

\* simulate_gpu: the object after the call (unchanged when the call raises)
simulate_gpu(m, nb, time_steps) ==
    IF simulate_gpu_error(m, nb, time_steps) # "" THEN m
    ELSE simulate_gpu_finish(m, simulate_gpu_dense(m, time_steps))

(***************************************************************************)
(* The callback of simulate.  A callback is user code: the ones modelled   *)
(* look at the object they are given (the length of self.spike_train, the  *)
(* working arrays _internal_states and _weights) and return, or raise at   *)
(* one tick.  A value that is not callable is skipped by the driver.       *)
(***************************************************************************)

\* callback=None, the default
NoCallback == [kind |-> "None", at |-> 0]

\* an object that is not callable
NotCallable == [kind |-> "not callable", at |-> 0]

\* a function that looks at the model and returns
Observe == [kind |-> "observe", at |-> 0]

\* a function that looks at the model and raises when called with tick = at
RaiseAt(at) == [kind |-> "raise", at |-> at]

\* callback is not None and callable(callback)
callable(callback) == callback.kind \in {"observe", "raise"}

\* what the invocation callback(self, tick, time_steps) is given and sees
callback_invocation(d, tick, time_steps) ==
    [ tick |-> tick,
      time_steps |-> time_steps,
      logged |-> Len(d.spike_train),
      internal_states |-> d.internal_states,
      weights |-> d.weights ]

\* mutant: the callback is invoked at the end of the tick
simulate_cpu_callback_tick_after(r, row, tick, time_steps, stdp_steps, callback) ==
    LET d == simulate_cpu_tick(r.d, row, stdp_steps)
    IN  IF callable(callback)
        THEN [d |-> d,
              invoked |-> Append(r.invoked, callback_invocation(d, tick, time_steps)),
              error |-> IF callback.kind = "raise" /\ callback.at = tick
                        THEN "CallbackError" ELSE ""]
        ELSE [r EXCEPT !.d = d]

\* the body of the for loop of simulate_cpu with its callback: the invocation,
\* then the tick; an exception of the callback, or of the tick (the shape
\* mismatch of W.T @ spikes), leaves the loop
simulate_cpu_callback_tick(r, row, tick, time_steps, stdp_steps, callback) ==
    LET invoked == IF callable(callback)
                   THEN Append(r.invoked, callback_invocation(r.d, tick, time_steps))
                   ELSE r.invoked
    IN  IF callable(callback) /\ callback.kind = "raise" /\ callback.at = tick
        THEN [r EXCEPT !.invoked = invoked, !.error = "CallbackError"]
        ELSE IF Len(r.d.spikes) # Len(r.d.internal_states)
        THEN [r EXCEPT !.invoked = invoked, !.error = "ValueError"]
        ELSE [d |-> simulate_cpu_tick(r.d, row, stdp_steps), invoked |-> invoked,
              error |-> ""]

RECURSIVE simulate_cpu_callback_loop(_, _, _, _, _, _)
\* for tick in range(time_steps), left early by an exception
simulate_cpu_callback_loop(r, input, tick, time_steps, stdp_steps, callback) ==
    IF r.error # "" \/ tick = time_steps THEN r
    ELSE simulate_cpu_callback_loop(
             simulate_cpu_callback_tick(r, input[tick], tick, time_steps, stdp_steps,
                                        callback),
             input, tick + 1, time_steps, stdp_steps, callback)

\* one call of simulate_cpu without manual setup: the object after it, what it
\* raised, the record of each tick it logged and the invocations of the
\* callback.  self.spike_train is appended to inside the loop; devec and
\* consume_input_spikes are reached only when the loop ends normally
simulate_cpu_callback(m, time_steps, callback) ==
    IF synapse_index_error(m) \/ input_index_error(m, time_steps)
    THEN [model |-> m, error |-> "IndexError", trace |-> << >>, invoked |-> << >>]
    ELSE LET r == simulate_cpu_callback_loop(
                      [d |-> setup(m), invoked |-> << >>, error |-> ""],
                      setup_input_spikes(m, time_steps), 0, time_steps,
                      stdp_time_steps(m), callback)
         IN  [model |-> IF r.error # ""
                        THEN [m EXCEPT !.spike_train = r.d.spike_train]
                        ELSE simulate_cpu_finish(m, r.d, time_steps),
              error |-> r.error,
              trace |-> r.d.trace,
              invoked |-> r.invoked]

\* the value of call before any simulate call with a callback
NoCall ==
    [time_steps |-> 0, callback |-> NoCallback, start |-> 0, base |-> 0, invoked |-> << >>]

\* steps and callbacks: the time_steps and callback arguments of
\* simulate(time_steps, callback, use='cpu')
CallSimulateCallback(steps, callbacks) ==
    \E time_steps \in steps, callback \in callbacks :
        LET run == simulate_cpu_callback(snn, time_steps, callback)
        IN  /\ time_steps > 0
            /\ snn' = run.model
            /\ last_used_backend' = "cpu"
            /\ err' = run.error
            /\ trace' = trace \o run.trace
            /\ now' = now + Len(run.trace)
            /\ call' = [time_steps |-> time_steps, callback |-> callback, start |-> now,
                        base |-> Len(snn.spike_train), invoked |-> run.invoked]
            /\ UNCHANGED <<numba, sched, created, ref>>

\* what check_numba and check_gpu raise when the module global numba is None
check_numba == "ImportError: Numba is not installed"
check_gpu == "ImportError: GPU support is not installed"

\* use.lower() on the names the menus hold
lower(use) == IF use = "TPU" THEN "tpu" ELSE use

\* the default of the argument `use`
None == "None"

\* mutant: the thresholds are reached, not exceeded
recommend_not_strict(m, nb, time_steps) ==
    LET score == num_neurons(m) * 1 + time_steps * 100
    IN  IF m.gpu /\ score >= gpu_threshold THEN "gpu"
        ELSE IF nb /\ score >= jit_threshold THEN "jit"
        ELSE "cpu"

\* recommend, nb being the module global numba
recommend(m, nb, time_steps) ==
    LET score == num_neurons(m) * 1 + time_steps * 100
    IN  IF m.gpu /\ score > gpu_threshold THEN "gpu"
        ELSE IF nb /\ score > jit_threshold THEN "jit"
        ELSE "cpu"

\* the value of `use` when simulate reaches its if/elif chain
simulate_use(m, nb, time_steps, use) ==
    LET given == IF use = None THEN m.backend ELSE use
        lowered == lower(given)
    IN  IF lowered = "auto" THEN recommend(m, nb, time_steps) ELSE lowered

\* the branch of the chain: the driver that runs, or "" when the else
\* branch raises ValueError
simulate_driver(m, nb, time_steps, use) ==
    LET u == simulate_use(m, nb, time_steps, use)
    IN  IF u = "jit" THEN "jit"
        ELSE IF u = "gpu" THEN "gpu"
        ELSE IF u = "cpu" \/ u = "" THEN "cpu"
        ELSE ""

\* what simulate raises, "" when it returns
simulate_error(m, nb, time_steps, use) ==
    LET driver == simulate_driver(m, nb, time_steps, use)
    IN  IF time_steps <= 0 THEN "ValueError: time_steps must be greater than zero"
        ELSE IF driver = "jit"
        THEN (IF ~nb THEN check_numba ELSE simulate_cpu_jit_error(m, time_steps))
        ELSE IF driver = "gpu" THEN simulate_gpu_error(m, nb, time_steps)
        ELSE IF driver = "cpu" THEN simulate_cpu_error(m, time_steps)
        ELSE "ValueError: Invalid backend: " \o simulate_use(m, nb, time_steps, use)

\* the dense state the chosen driver ends with (of a call that returns)
simulate_dense(m, nb, time_steps, use) ==
    LET driver == simulate_driver(m, nb, time_steps, use)
    IN  IF driver = "jit" THEN simulate_cpu_jit_dense(m, time_steps)
        ELSE IF driver = "gpu" THEN simulate_gpu_dense(m, time_steps)
        ELSE simulate_cpu_dense(m, time_steps)

\* the end of the chosen driver, from the dense state d it ended with
simulate_finish(m, nb, time_steps, use, d) ==
    IF simulate_driver(m, nb, time_steps, use) = "gpu" THEN simulate_gpu_finish(m, d)
    ELSE simulate_cpu_finish(m, d, time_steps)

\* mutant: the backend name is rejected only after the reference driver ran
simulate_run_late_check(m, nb, time_steps, use) ==
    LET e == simulate_error(m, nb, time_steps, use)
        d == simulate_dense(m, nb, time_steps, use)
    IN  IF e = ""
        THEN [model |-> simulate_finish(m, nb, time_steps, use, d), error |-> e,
              trace |-> d.trace]
        ELSE [model |-> IF simulate_driver(m, nb, time_steps, use) = ""
                        THEN simulate_cpu(m, time_steps) ELSE m,
              error |-> e, trace |-> << >>]

\* one call of simulate: the object after it, what it raised, and the record
\* of each tick it logged
simulate_run(m, nb, time_steps, use) ==
    LET e == simulate_error(m, nb, time_steps, use)
        d == simulate_dense(m, nb, time_steps, use)
    IN  IF e = ""
        THEN [model |-> simulate_finish(m, nb, time_steps, use, d), error |-> e,
              trace |-> d.trace]
        ELSE [model |-> m, error |-> e, trace |-> << >>]

\* simulate: the object after the call
simulate(m, nb, time_steps, use) == simulate_run(m, nb, time_steps, use).model

\* self._last_used_backend after simulate: each driver sets it first
simulate_last_used_backend(m, nb, time_steps, use, before) ==
    LET driver == simulate_driver(m, nb, time_steps, use)
    IN  IF time_steps <= 0 \/ driver = "" THEN before ELSE driver

\* steps and uses: the time_steps and `use` arguments simulate may be called with
CallSimulate(steps, uses) ==
    \E time_steps \in steps, use \in uses :
        LET run == simulate_run(snn, numba, time_steps, use)
        IN  /\ snn' = run.model
            /\ last_used_backend' =
                   simulate_last_used_backend(snn, numba, time_steps, use, last_used_backend)
            /\ err' = run.error
            /\ trace' = trace \o run.trace
            /\ now' = now + Len(run.trace)
            /\ UNCHANGED <<numba, call, sched, created, ref>>

\* the setter of the property backend
CallSetBackend(menu) ==
    \E value \in menu :
        /\ snn' = [snn EXCEPT !.backend = value]
        /\ err' = ""
        /\ UNCHANGED <<numba, call, last_used_backend, now, sched, trace, created, ref>>

CallSimulateJit(steps) ==
    \E time_steps \in steps :
        LET e == IF ~numba THEN check_numba ELSE simulate_cpu_jit_error(snn, time_steps)
        IN  /\ time_steps > 0
            /\ last_used_backend' = "jit"
            /\ err' = e
            /\ IF e = ""
               THEN /\ snn' = simulate_cpu_jit(snn, time_steps)
                    /\ trace' = trace \o simulate_cpu_jit_dense(snn, time_steps).trace
                    /\ now' = now + time_steps
               ELSE UNCHANGED <<numba, call, snn, trace, now>>
            /\ UNCHANGED <<numba, call, sched, created, ref>>

\* menu: the <<pre_id, post_id, weight, delay, stdp_enabled>> tuples create_synapse
\* may be called with; created keeps each call with the counts before it
CallCreateSynapse(menu) ==
    \E s \in menu :
        /\ ~create_synapse_raises(s[1], s[2], s[4])
        /\ snn' = create_synapse(snn, s[1], s[2], s[3], s[4], s[5])
        /\ created' = Append(created, [pre_id |-> s[1], post_id |-> s[2], weight |-> s[3],
                                       delay |-> s[4], stdp_enabled |-> s[5],
                                       neurons |-> num_neurons(snn),
                                       synapses |-> num_synapses(snn)])
        /\ err' = ""
        /\ UNCHANGED <<numba, call, last_used_backend, now, sched, trace, ref>>

\* menu: the records of arguments stdp_setup may be called with
CallStdpSetup(menu) ==
    \E c \in menu :
        /\ ~stdp_setup_raises(snn, c.time_steps, c.Apos, c.Aneg,
                              c.positive_update, c.negative_update)
        /\ snn' = stdp_setup(snn, c.Apos, c.Aneg, c.positive_update, c.negative_update)
        /\ err' = ""
        /\ UNCHANGED <<numba, call, last_used_backend, now, sched, trace, created, ref>>

(***************************************************************************)
(* The calls with their checks: what each raises, and the object after the *)
(* call.  The checks come before the first append or assignment.           *)
(***************************************************************************)

\* the ValueError create_neuron raises, "" when it raises none
create_neuron_error(leak, refractory_period, refractory_state) ==
    IF leak < 0 THEN "ValueError: leak must be grater than or equal to zero"
    ELSE IF refractory_period < 0
    THEN "ValueError: refractory_period must be greater than or equal to zero"
    ELSE IF refractory_state < 0
    THEN "ValueError: refractory_state must be greater than or equal to zero"
    ELSE ""

\* mutant: the checks of the refractory arguments come after the appends
create_neuron_call_late_check(m, k) ==
    IF k.leak < 0 THEN m ELSE new_neuron(m, k)

\* create_neuron as a whole
create_neuron_call(m, k) ==
    IF create_neuron_error(k.leak, k.refractory_period, k.refractory_state) # ""
    THEN m ELSE new_neuron(m, k)

\* the ValueError create_synapse raises, "" when it raises none
create_synapse_error(pre_id, post_id, delay) ==
    IF pre_id < 0 THEN "ValueError: pre_id must be greater than or equal to zero"
    ELSE IF post_id < 0 THEN "ValueError: post_id must be greater than or equal to zero"
    ELSE IF delay <= 0 THEN "ValueError: delay must be greater than or equal to 1"
    ELSE ""

\* create_synapse as a whole
create_synapse_call(m, pre_id, post_id, weight, delay, stdp_enabled) ==
    IF create_synapse_error(pre_id, post_id, delay) # ""
    THEN m ELSE create_synapse(m, pre_id, post_id, weight, delay, stdp_enabled)

\* the ValueError add_spike raises, "" when it raises none
add_spike_error(time, neuron_id) ==
    IF time < 0 THEN "ValueError: time must be greater than or equal to zero"
    ELSE IF neuron_id < 0 THEN "ValueError: neuron_id must be greater than or equal to zero"
    ELSE ""

\* add_spike as a whole
add_spike_call(m, time, neuron_id, value) ==
    IF add_spike_error(time, neuron_id) # "" THEN m ELSE add_spike(m, time, neuron_id, value)

\* what stdp_setup raises, "" when it raises nothing
stdp_setup_error(m, time_steps, Apos, Aneg, positive_update, negative_update) ==
    IF time_steps <= 0 THEN "ValueError: time_steps should be greater than zero"
    ELSE IF positive_update /\ Len(Apos) # time_steps
    THEN "ValueError: Length of Apos should be " \o ToString(time_steps)
    ELSE IF negative_update /\ Len(Aneg) # time_steps
    THEN "ValueError: Length of Aneg should be " \o ToString(time_steps)
    ELSE IF ~AnyTrue(m.enable_stdp) THEN "RuntimeError: STDP is not enabled on any synapse"
    ELSE ""

\* mutant: the kernels are stored before the check for an enabled synapse
stdp_setup_call_late_check(m, c) ==
    IF \/ c.time_steps <= 0
       \/ c.positive_update /\ Len(c.Apos) # c.time_steps
       \/ c.negative_update /\ Len(c.Aneg) # c.time_steps
    THEN m
    ELSE stdp_setup(m, c.Apos, c.Aneg, c.positive_update, c.negative_update)

\* stdp_setup as a whole
stdp_setup_call(m, c) ==
    IF stdp_setup_error(m, c.time_steps, c.Apos, c.Aneg,
                        c.positive_update, c.negative_update) # ""
    THEN m
    ELSE stdp_setup(m, c.Apos, c.Aneg, c.positive_update, c.negative_update)

TryCreateNeuron(kinds) ==
    \E k \in kinds :
        /\ snn' = create_neuron_call(snn, k)
        /\ err' = create_neuron_error(k.leak, k.refractory_period, k.refractory_state)
        /\ UNCHANGED <<numba, call, last_used_backend, now, sched, trace, created, ref>>

TryCreateSynapse(menu) ==
    \E s \in menu :
        LET e == create_synapse_error(s[1], s[2], s[4])
        IN  /\ snn' = create_synapse_call(snn, s[1], s[2], s[3], s[4], s[5])
            /\ err' = e
            /\ created' = IF e # "" THEN created
                          ELSE Append(created,
                                   [pre_id |-> s[1], post_id |-> s[2], weight |-> s[3],
                                    delay |-> s[4], stdp_enabled |-> s[5],
                                    neurons |-> num_neurons(snn),
                                    synapses |-> num_synapses(snn)])
            /\ UNCHANGED <<numba, call, last_used_backend, now, sched, trace, ref>>

TryAddSpike(menu) ==
    \E s \in menu :
        LET e == add_spike_error(s[1], s[2])
        IN  /\ snn' = add_spike_call(snn, s[1], s[2], s[3])
            /\ err' = e
            /\ sched' = IF e # "" THEN sched ELSE record_spike(sched, now + s[1], s[2], s[3])
            /\ UNCHANGED <<numba, call, last_used_backend, now, trace, created, ref>>

TryStdpSetup(menu) ==
    \E c \in menu :
        /\ snn' = stdp_setup_call(snn, c)
        /\ err' = stdp_setup_error(snn, c.time_steps, c.Apos, c.Aneg,
                                   c.positive_update, c.negative_update)
        /\ UNCHANGED <<numba, call, last_used_backend, now, sched, trace, created, ref>>

CallReset ==
    /\ snn' = reset(snn)
    /\ err' = ""
    /\ UNCHANGED <<numba, call, last_used_backend, now, sched, trace, created, ref>>

CallSetManualSetup ==
    /\ snn' = set_manual_setup(snn)
    /\ err' = ""
    /\ UNCHANGED <<numba, call, last_used_backend, now, sched, trace, created, ref>>

CallSetup ==
    /\ snn' = public_setup(snn)
    /\ err' = public_setup_error(snn)
    /\ UNCHANGED <<numba, call, last_used_backend, now, sched, trace, created, ref>>

CallSetupInputSpikes(steps) ==
    \E time_steps \in steps :
        /\ snn' = manual_setup_input_spikes(snn, time_steps)
        /\ err' = manual_setup_input_spikes_error(snn, time_steps)
        /\ UNCHANGED <<numba, call, last_used_backend, now, sched, trace, created, ref>>

CallSimulateManual(steps) ==
    \E time_steps \in steps :
        /\ time_steps > 0
        /\ snn.manual_setup
        /\ last_used_backend' = "cpu"
        /\ err' = simulate_cpu_manual_error(snn, time_steps)
        /\ snn' = simulate_cpu_manual(snn, time_steps)
        /\ IF snn.arrays.built
           THEN /\ trace' = trace \o simulate_cpu_manual_dense(snn, time_steps).trace
                /\ now' = now + manual_ticks(snn, time_steps)
           ELSE UNCHANGED <<trace, now>>
        /\ UNCHANGED <<numba, call, sched, created, ref>>

Init ==
    /\ snn = EmptyModel
    /\ last_used_backend = "None"
    /\ err = ""
    /\ now = 0
    /\ sched = << >>
    /\ trace = << >>
    /\ created = << >>
    /\ ref = EmptyModel
    /\ numba = TRUE
    /\ call = NoCall

\* the record of trace for the k-th entry of snn.spike_train
TickOf(k) == trace[now - Len(snn.spike_train) + k]

\* column n of the spike train: the logged spikes of neuron id n
SpikesOf(m, n) == [k \in 1..Len(m.spike_train) |-> m.spike_train[k][n + 1]]

(***************************************************************************)
(* SpecRefractory: neurons with refractory periods, a driving synapse and  *)
(* external spikes of several amplitudes on consecutive ticks.             *)
(***************************************************************************)

MaxRefrNeurons == 2
MaxRefrSynapses == 1
MaxRefrSpikes == 4
MaxRefrTicks == 10

RefrNeurons == { Neuron(0, Inf, 0, 2), Neuron(0, Inf, 0, 0), Neuron(1, 0, 0, 1) }
RefrDrivers == { Neuron(0, Inf, 0, 0) }
RefrSpikeMenu ==
    { <<1, 0, 1>>, <<2, 0, 3>>, <<3, 0, 4>>, <<4, 0, 1>>, <<2, 0, 1>>, <<3, 0, 1>>,
      <<1, 1, 1>> }
RefrSteps == {1, 2, 10}

\* neuron 0 is the neuron under test, the others drive it
RefrCreateNeuron ==
    /\ num_neurons(snn) < MaxRefrNeurons
    /\ now = 0
    /\ CallCreateNeuron(IF num_neurons(snn) = 0 THEN RefrNeurons ELSE RefrDrivers, FALSE)

\* a synapse from the driving neuron 1 to neuron 0
RefrCreateSynapse ==
    /\ num_synapses(snn) < MaxRefrSynapses
    /\ num_neurons(snn) >= 2
    /\ now = 0
    /\ snn' = create_synapse(snn, 1, 0, 1, 1, FALSE)
    /\ created' = Append(created, [pre_id |-> 1, post_id |-> 0, weight |-> 1, delay |-> 1,
                                   stdp_enabled |-> FALSE, neurons |-> num_neurons(snn)])
    /\ err' = ""
    /\ UNCHANGED <<numba, call, last_used_backend, now, sched, trace, ref>>

RefrAddSpike ==
    /\ spike_count(sched) < MaxRefrSpikes
    /\ now = 0
    /\ CallAddSpike({s \in RefrSpikeMenu :
                        /\ s[2] < num_neurons(snn)
                        /\ ~has_spike(snn.input_spikes, s[1], s[2], s[3])}, FALSE)

RefrSimulate ==
    /\ \E T \in RefrSteps : now + T <= MaxRefrTicks /\ CallSimulateCpu({T}, FALSE)

NextRefractory == RefrCreateNeuron \/ RefrCreateSynapse \/ RefrAddSpike \/ RefrSimulate

SpecRefractory == Init /\ [][NextRefractory]_vars

(***************************************************************************)
(* SpecDelay: a presynaptic and a postsynaptic neuron joined by synapses   *)
(* with delays, built twice: snn by create_synapse(delay = d), ref by the  *)
(* user creating the d - 1 relay neurons (threshold 0, leak 0, reset 0)    *)
(* and the unit-delay synapses by hand.  Both receive the same calls.      *)
(***************************************************************************)

MaxDelay == 2
MaxDelaySynapses == 2
MaxDelaySpikes == 4
MaxDelayTicks == 10

\* the kinds of neuron 0 (presynaptic) and of neuron 1 (postsynaptic)
DelayNeurons ==
    << { Neuron(-1, Inf, -1, 2) },
       { Neuron(0, Inf, 0, 1000000), Neuron(0, 0, 0, 0) } >>
DelayWeights == {2}
DelaySpikeMenu ==
    { <<1, 1, -1>>, <<2, 0, 10>>, <<3, 0, 10>>, <<5, 0, 10>> }
DelaySteps == {1, 2, 10}

RECURSIVE manual_relay_chain(_, _, _)
\* the user's chain: hops relay neurons with threshold 0, leak 0 and reset state 0,
\* each fed by a synapse of delay 1
manual_relay_chain(m, pre_id, hops) ==
    IF hops = 0
    THEN [model |-> m, pre_id |-> pre_id]
    ELSE LET m1 == create_neuron(m, 0, 0, 0, 0, 0, 0)
             relay == num_neurons(m1) - 1
             m2 == create_synapse(m1, pre_id, relay, 1, 1, FALSE)
         IN  manual_relay_chain(m2, relay, hops - 1)

\* the user's replacement for create_synapse(pre, post, weight, delay): the last
\* synapse of the chain carries the weight
manual_delay_synapse(m, pre_id, post_id, weight, delay, stdp_enabled) ==
    LET c == manual_relay_chain(m, pre_id, delay - 1)
    IN  create_synapse(c.model, c.pre_id, post_id, weight, 1, stdp_enabled)

DelayCreateNeuron ==
    /\ num_neurons(snn) < Len(DelayNeurons)
    /\ created = << >>
    /\ now = 0
    /\ CallCreateNeuron(DelayNeurons[num_neurons(snn) + 1], TRUE)

DelayCreateSynapse ==
    \E weight \in DelayWeights, delay \in 1..MaxDelay :
        /\ Len(created) < MaxDelaySynapses
        /\ num_neurons(snn) >= Len(DelayNeurons)
        /\ now = 0
        /\ ~create_synapse_raises(0, 1, delay)
        /\ snn' = create_synapse(snn, 0, 1, weight, delay, FALSE)
        /\ ref' = manual_delay_synapse(ref, 0, 1, weight, delay, FALSE)
        /\ created' = Append(created, [pre_id |-> 0, post_id |-> 1, weight |-> weight,
                                       delay |-> delay, stdp_enabled |-> FALSE,
                                       neurons |-> num_neurons(snn)])
        /\ err' = ""
        /\ UNCHANGED <<numba, call, last_used_backend, now, sched, trace>>

DelayAddSpike ==
    /\ spike_count(sched) < MaxDelaySpikes
    /\ now = 0
    /\ CallAddSpike({s \in DelaySpikeMenu :
                        /\ s[2] < Min2(num_neurons(snn), Len(DelayNeurons))
                        /\ ~has_spike(snn.input_spikes, s[1], s[2], s[3])}, TRUE)

DelaySimulate ==
    /\ \E T \in DelaySteps : now + T <= MaxDelayTicks /\ CallSimulateCpu({T}, TRUE)

NextDelay == DelayCreateNeuron \/ DelayCreateSynapse \/ DelayAddSpike \/ DelaySimulate

SpecDelay == Init /\ [][NextDelay]_vars

(***************************************************************************)
(* SpecStdp: two neurons, synapses with and without STDP (two of them on   *)
(* the same pair, one through a relay), stdp_setup with windows of 2 and 3 *)
(* lags, pending input, and runs cut into calls of 1 and 2 ticks on the    *)
(* cpu backend.                                                            *)
(***************************************************************************)

MaxStdpSynapses == 2
MaxStdpSpikes == 2
MaxStdpTicks == 4

StdpNeurons ==
    << { Neuron(0, Inf, 0, 0) },
       { Neuron(0, Inf, 0, 1), Neuron(1, 0, 0, 0) } >>
StdpSynapseMenu ==
    { <<0, 1, 1, 1, FALSE>>, <<0, 1, 2, 1, TRUE>>, <<1, 0, 1, 2, TRUE>> }
StdpMenu ==
    { [time_steps |-> 2, Apos |-> <<2, 1>>, Aneg |-> << >>,
       positive_update |-> TRUE, negative_update |-> FALSE],
      [time_steps |-> 3, Apos |-> <<1, 1, 1>>, Aneg |-> <<-1, -1, -1>>,
       positive_update |-> TRUE, negative_update |-> TRUE] }
StdpSpikeMenu == { <<0, 0, 1>>, <<1, 0, 1>>, <<1, 1, 2>>, <<3, 0, 1>> }
StdpSteps == {1, 2}

StdpCreateNeuron ==
    /\ num_neurons(snn) < Len(StdpNeurons)
    /\ created = << >>
    /\ now = 0
    /\ CallCreateNeuron(StdpNeurons[num_neurons(snn) + 1], FALSE)

StdpCreateSynapse ==
    /\ Len(created) < MaxStdpSynapses
    /\ num_neurons(snn) >= Len(StdpNeurons)
    /\ stdp_time_steps(snn) = 0
    /\ sched = << >>
    /\ now = 0
    /\ CallCreateSynapse({s \in StdpSynapseMenu :
            \A c \in 1..Len(created) :
                <<created[c].pre_id, created[c].post_id, created[c].weight>>
                    # <<s[1], s[2], s[3]>>})

StdpSetup ==
    /\ stdp_time_steps(snn) = 0
    /\ sched = << >>
    /\ now = 0
    /\ CallStdpSetup(StdpMenu)

StdpAddSpike ==
    /\ spike_count(sched) < MaxStdpSpikes
    /\ now = 0
    /\ CallAddSpike({s \in StdpSpikeMenu :
                        /\ s[2] < Min2(num_neurons(snn), Len(StdpNeurons))
                        /\ ~has_spike(snn.input_spikes, s[1], s[2], s[3])}, FALSE)

StdpSimulate ==
    /\ \E T \in StdpSteps : now + T <= MaxStdpTicks /\ CallSimulateCpu({T}, FALSE)

NextStdp ==
    \/ StdpCreateNeuron
    \/ StdpCreateSynapse
    \/ StdpSetup
    \/ StdpAddSpike
    \/ StdpSimulate

SpecStdp == Init /\ [][NextStdp]_vars

(***************************************************************************)
(* SpecBackend: the models and calls of SpecStdp, with simulate(use='jit') *)
(* as one more call.                                                       *)
(***************************************************************************)

BackendSimulateJit ==
    /\ \E T \in StdpSteps : now + T <= MaxStdpTicks /\ CallSimulateJit({T})

NextBackend == NextStdp \/ BackendSimulateJit

SpecBackend == Init /\ [][NextBackend]_vars

(***************************************************************************)
(* SpecInput: two neurons and add_spike calls before and between simulate  *)
(* calls of 1 and 2 ticks; two of the spikes are for the same neuron and   *)
(* tick.  sched keeps every add_spike call under its absolute tick.        *)
(***************************************************************************)

MaxInputSpikes == 4
MaxInputTicks == 4

InputNeurons == << { Neuron(0, Inf, 0, 0) }, { Neuron(1, 0, 0, 0) } >>
InputSpikeMenu == { <<0, 0, 1>>, <<1, 0, 1>>, <<1, 0, 3>>, <<2, 1, 1>> }
InputSteps == {1, 2}

InputCreateNeuron ==
    /\ num_neurons(snn) < Len(InputNeurons)
    /\ now = 0
    /\ sched = << >>
    /\ CallCreateNeuron(InputNeurons[num_neurons(snn) + 1], FALSE)

InputAddSpike ==
    /\ spike_count(sched) < MaxInputSpikes
    /\ num_neurons(snn) = Len(InputNeurons)
    /\ CallAddSpike({s \in InputSpikeMenu :
                        ~has_spike(snn.input_spikes, s[1], s[2], s[3])}, FALSE)

InputSimulate ==
    /\ \E T \in InputSteps : now + T <= MaxInputTicks /\ CallSimulateCpu({T}, FALSE)

NextInput == InputCreateNeuron \/ InputAddSpike \/ InputSimulate

SpecInput == Init /\ [][NextInput]_vars

(***************************************************************************)
(* SpecLeak: neurons with infinite and with finite leak, created away from *)
(* their reset state, pushed above and below it by input that does not     *)
(* make them fire, with and without a refractory period.                   *)
(***************************************************************************)

MaxLeakNeurons == 2
MaxLeakSpikes == 3
MaxLeakTicks == 4

LeakNeurons ==
    { [Neuron(2, Inf, 0, 2) EXCEPT !.initial_state = 1],
      [Neuron(2, Inf, -1, 0) EXCEPT !.initial_state = -3],
      Neuron(2, 1, 0, 0),
      [Neuron(1, 0, 0, 0) EXCEPT !.initial_state = -1] }
LeakSynapseMenu == { <<0, 1, 1, 1, FALSE>> }
LeakSpikeMenu == { <<0, 0, 3>>, <<1, 0, 1>>, <<1, 0, -2>>, <<2, 1, -2>>, <<0, 1, 1>> }
LeakSteps == {1, 2}

LeakCreateNeuron ==
    /\ num_neurons(snn) < MaxLeakNeurons
    /\ created = << >>
    /\ sched = << >>
    /\ now = 0
    /\ CallCreateNeuron(LeakNeurons, FALSE)

LeakCreateSynapse ==
    /\ created = << >>
    /\ sched = << >>
    /\ num_neurons(snn) >= 2
    /\ now = 0
    /\ CallCreateSynapse(LeakSynapseMenu)

LeakAddSpike ==
    /\ spike_count(sched) < MaxLeakSpikes
    /\ now = 0
    /\ CallAddSpike({s \in LeakSpikeMenu :
                        /\ s[2] < num_neurons(snn)
                        /\ ~has_spike(snn.input_spikes, s[1], s[2], s[3])}, FALSE)

LeakSimulate ==
    /\ \E T \in LeakSteps : now + T <= MaxLeakTicks /\ CallSimulateCpu({T}, FALSE)

NextLeak == LeakCreateNeuron \/ LeakCreateSynapse \/ LeakAddSpike \/ LeakSimulate

SpecLeak == Init /\ [][NextLeak]_vars

(***************************************************************************)
(* SpecNonChained: the calls of test_refractory_newdelay.  The user sets   *)
(* snn.use_chained_delay = False before anything else; no code of the      *)
(* class reads that attribute, so the assignment changes nothing the       *)
(* model holds and every call below is made with it in place.              *)
(***************************************************************************)

MaxNonChainedDelay == 3
MaxNonChainedSpikes == 4
MaxNonChainedTicks == 10

NonChainedNeurons == << { Neuron(-1, Inf, -1, 2) }, { Neuron(0, Inf, 0, 1000000) } >>
NonChainedSpikeMenu == { <<1, 1, -1>>, <<2, 0, 10>>, <<3, 0, 10>>, <<5, 0, 10>> }
NonChainedSteps == {1, 2, 10}

NonChainedCreateNeuron ==
    /\ num_neurons(snn) < Len(NonChainedNeurons)
    /\ created = << >>
    /\ now = 0
    /\ CallCreateNeuron(NonChainedNeurons[num_neurons(snn) + 1], FALSE)

NonChainedCreateSynapse ==
    /\ created = << >>
    /\ num_neurons(snn) = Len(NonChainedNeurons)
    /\ now = 0
    /\ CallCreateSynapse({ <<0, 1, 2, delay, FALSE>> : delay \in 1..MaxNonChainedDelay })

NonChainedAddSpike ==
    /\ spike_count(sched) < MaxNonChainedSpikes
    /\ num_neurons(snn) >= Len(NonChainedNeurons)
    /\ now = 0
    /\ CallAddSpike({s \in NonChainedSpikeMenu :
                        ~has_spike(snn.input_spikes, s[1], s[2], s[3])}, FALSE)

NonChainedSimulate ==
    /\ \E T \in NonChainedSteps :
          now + T <= MaxNonChainedTicks /\ CallSimulateCpu({T}, FALSE)

NextNonChained ==
    \/ NonChainedCreateNeuron
    \/ NonChainedCreateSynapse
    \/ NonChainedAddSpike
    \/ NonChainedSimulate

SpecNonChained == Init /\ [][NextNonChained]_vars

(***************************************************************************)
(* SpecErrors: construction and configuration calls with arguments the     *)
(* checks reject next to ones they accept, in any order.                   *)
(***************************************************************************)

MaxErrNeurons == 2
MaxErrSynapses == 2
MaxErrSpikes == 2

ErrNeurons ==
    { Neuron(0, Inf, 0, 0), Neuron(0, -1, 0, 0), Neuron(0, 0, 0, -1),
      [Neuron(0, 0, 0, 0) EXCEPT !.refractory_state = -1] }
ErrSynapseMenu ==
    { <<0, 1, 1, 1, TRUE>>, <<0, 1, 2, 2, FALSE>>, <<0, 2, 1, 1, FALSE>>,
      <<1, 0, 3, 3, TRUE>>,
      <<-1, 0, 1, 1, FALSE>>, <<0, -1, 1, 2, FALSE>>, <<0, 1, 1, 0, FALSE>> }
ErrSpikeMenu == { <<0, 0, 1>>, <<-1, 0, 1>>, <<1, -1, 1>> }
ErrStdpMenu ==
    { [time_steps |-> 2, Apos |-> <<1, 1>>, Aneg |-> <<1, 1>>,
       positive_update |-> TRUE, negative_update |-> TRUE],
      [time_steps |-> 2, Apos |-> <<1>>, Aneg |-> <<1, 1>>,
       positive_update |-> TRUE, negative_update |-> TRUE],
      [time_steps |-> 2, Apos |-> <<2, 2>>, Aneg |-> <<1>>,
       positive_update |-> TRUE, negative_update |-> TRUE],
      [time_steps |-> 2, Apos |-> <<3, 3>>, Aneg |-> <<1>>,
       positive_update |-> TRUE, negative_update |-> FALSE],
      [time_steps |-> 0, Apos |-> << >>, Aneg |-> << >>,
       positive_update |-> TRUE, negative_update |-> TRUE] }

ErrCreateNeuron ==
    /\ num_neurons(snn) < MaxErrNeurons
    /\ TryCreateNeuron(ErrNeurons)

ErrCreateSynapse ==
    /\ Len(created) < MaxErrSynapses
    /\ TryCreateSynapse(ErrSynapseMenu)

ErrAddSpike ==
    /\ spike_count(sched) < MaxErrSpikes
    /\ TryAddSpike(ErrSpikeMenu)

ErrStdpSetup == TryStdpSetup(ErrStdpMenu)

NextErrors == ErrCreateNeuron \/ ErrCreateSynapse \/ ErrAddSpike \/ ErrStdpSetup

SpecErrors == Init /\ [][NextErrors]_vars

(***************************************************************************)
(* SpecDispatch: simulate through its dispatcher, in the three             *)
(* environments (no numba; numba without a CUDA device; numba with one),   *)
(* with the backend property and the argument `use` taken from menus that  *)
(* hold the three backends, 'auto' and an unknown name in lower and in      *)
(* upper case.  The sizes put the score on both sides of each threshold.   *)
(***************************************************************************)

MaxDispatchNeurons == 1
MaxDispatchTicks == 20

DispatchNeurons == { Neuron(0, Inf, 0, 0) }
DispatchSpikeMenu == { <<15, 0, 1>> }
DispatchBackends == { "auto", "gpu", "tpu" }
DispatchUses == { None, "auto", "jit", "cpu", "TPU" }
DispatchSteps == { 10, 100 }

InitDispatch ==
    /\ numba \in BOOLEAN
    /\ \E available \in BOOLEAN :
          /\ available => numba
          /\ snn = [EmptyModel EXCEPT !.gpu = available]
    /\ last_used_backend = "None"
    /\ err = ""
    /\ now = 0
    /\ sched = << >>
    /\ trace = << >>
    /\ created = << >>
    /\ ref = EmptyModel
    /\ call = NoCall

DispatchCreateNeuron ==
    /\ now = 0
    /\ num_neurons(snn) < MaxDispatchNeurons
    /\ CallCreateNeuron(DispatchNeurons, FALSE)

DispatchAddSpike ==
    /\ now = 0
    /\ num_neurons(snn) > 0
    /\ sched = << >>
    /\ CallAddSpike(DispatchSpikeMenu, FALSE)

DispatchSetBackend == CallSetBackend(DispatchBackends)

DispatchSimulate ==
    /\ \E time_steps \in DispatchSteps :
          /\ now = 0 \/ now + time_steps <= MaxDispatchTicks
          /\ CallSimulate({time_steps}, DispatchUses)

NextDispatch ==
    DispatchCreateNeuron \/ DispatchAddSpike \/ DispatchSetBackend \/ DispatchSimulate

SpecDispatch == InitDispatch /\ [][NextDispatch]_vars

(***************************************************************************)
(* SpecCallback: simulate on the cpu driver with a callback that observes, *)
(* one that raises at tick 0 or 1, a value that is not callable, or none,  *)
(* on a two-neuron network with an optional learning synapse.              *)
(***************************************************************************)

MaxCallbackSpikes == 2
MaxCallbackTicks == 4

CallbackNeurons == << { Neuron(0, Inf, 0, 0) }, { Neuron(0, 0, 0, 0) } >>
CallbackSynapseMenu == { <<0, 1, 1, 1, TRUE>> }
CallbackStdpMenu ==
    { [time_steps |-> 2, Apos |-> <<2, 1>>, Aneg |-> << >>,
       positive_update |-> TRUE, negative_update |-> FALSE] }
CallbackSpikeMenu == { <<0, 0, 1>>, <<1, 0, 1>>, <<2, 0, 1>> }
CallbackSteps == {1, 2, 3}
Callbacks == { NoCallback, NotCallable, Observe, RaiseAt(0), RaiseAt(1) }

CallbackCreateNeuron ==
    /\ num_neurons(snn) < Len(CallbackNeurons)
    /\ now = 0
    /\ CallCreateNeuron(CallbackNeurons[num_neurons(snn) + 1], FALSE)

CallbackCreateSynapse ==
    /\ num_neurons(snn) = Len(CallbackNeurons)
    /\ created = << >>
    /\ sched = << >>
    /\ now = 0
    /\ CallCreateSynapse(CallbackSynapseMenu)

CallbackStdpSetup ==
    /\ stdp_time_steps(snn) = 0
    /\ sched = << >>
    /\ now = 0
    /\ CallStdpSetup(CallbackStdpMenu)

CallbackAddSpike ==
    /\ num_neurons(snn) = Len(CallbackNeurons)
    /\ spike_count(sched) < MaxCallbackSpikes
    /\ now = 0
    /\ CallAddSpike({s \in CallbackSpikeMenu :
                        ~has_spike(snn.input_spikes, s[1], s[2], s[3])}, FALSE)

CallbackSimulate ==
    /\ num_neurons(snn) = Len(CallbackNeurons)
    /\ \E time_steps \in CallbackSteps :
          /\ now + time_steps <= MaxCallbackTicks
          /\ CallSimulateCallback({time_steps}, Callbacks)

NextCallback ==
    \/ CallbackCreateNeuron
    \/ CallbackCreateSynapse
    \/ CallbackStdpSetup
    \/ CallbackAddSpike
    \/ CallbackSimulate

SpecCallback == Init /\ [][NextCallback]_vars

(***************************************************************************)
(* SpecGrow: the object over its lifetime.  Neurons, a synapse (direct or   *)
(* with a delay of 2) and an input spike are added before and between runs *)
(* of simulate on the cpu driver, and reset is called after any run.       *)
(***************************************************************************)

MaxGrowNeurons == 3
MaxGrowTicks == 3

\* the kinds of neuron id 0, of neuron id 1, and of every later neuron
GrowNeurons ==
    << { Neuron(0, Inf, 0, 0) },
       { Neuron(0, 0, 0, 2), [Neuron(1, 1, 0, 0) EXCEPT !.refractory_state = 2] },
       { [Neuron(0, 0, 1, 0) EXCEPT !.initial_state = 1] } >>
GrowSynapseMenu == { <<0, 1, 1, 1, FALSE>>, <<0, 1, 1, 2, FALSE>> }
GrowSpikeMenu == { <<0, 0, 2>>, <<1, 0, 2>>, <<0, 1, 2>> }
GrowSteps == {1, 2}

GrowCreateNeuron ==
    /\ num_neurons(snn) < MaxGrowNeurons
    /\ CallCreateNeuron(GrowNeurons[Min2(num_neurons(snn) + 1, Len(GrowNeurons))], FALSE)

GrowCreateSynapse ==
    /\ created = << >>
    /\ num_neurons(snn) >= 2
    /\ CallCreateSynapse({s \in GrowSynapseMenu :
                             num_neurons(snn) + s[4] - 1 <= MaxGrowNeurons})

GrowAddSpike ==
    /\ sched = << >>
    /\ CallAddSpike({s \in GrowSpikeMenu :
                        /\ s[2] < num_neurons(snn)
                        /\ ~has_spike(snn.input_spikes, s[1], s[2], s[3])}, FALSE)

GrowSimulate ==
    /\ \E T \in GrowSteps : now + T <= MaxGrowTicks /\ CallSimulateCpu({T}, FALSE)

GrowReset ==
    /\ Len(snn.spike_train) > 0
    /\ CallReset

NextGrow ==
    \/ GrowCreateNeuron
    \/ GrowCreateSynapse
    \/ GrowAddSpike
    \/ GrowSimulate
    \/ GrowReset

SpecGrow == Init /\ [][NextGrow]_vars

(***************************************************************************)
(* Manual setup: the user sets manual_setup, calls setup() and               *)
(* setup_input_spikes(), and runs simulate on the cpu backend                *)
(***************************************************************************)

MaxManualNeurons == 2
MaxManualTicks == 3

ManualNeurons ==
    << { Neuron(0, 0, 0, 2) },
       { Neuron(0, 1, 0, 1), Neuron(1, 0, 0, 0) } >>
ManualSynapseMenu == { <<0, 1, 1, 1, TRUE>>, <<0, 1, 2, 1, FALSE>> }
ManualStdpMenu ==
    { [time_steps |-> 2, Apos |-> <<2, 1>>, Aneg |-> << >>,
       positive_update |-> TRUE, negative_update |-> FALSE] }
ManualSpikeMenu == { <<0, 0, 1>>, <<1, 0, 2>> }
ManualSteps == {1, 2}

ManualCreateNeuron ==
    /\ num_neurons(snn) < MaxManualNeurons
    /\ snn.arrays = NoArrays
    /\ CallCreateNeuron(ManualNeurons[Min2(num_neurons(snn) + 1, Len(ManualNeurons))], FALSE)

ManualCreateSynapse ==
    /\ created = << >>
    /\ num_neurons(snn) = MaxManualNeurons
    /\ snn.arrays = NoArrays
    /\ CallCreateSynapse(ManualSynapseMenu)

ManualStdpSetup ==
    /\ stdp_time_steps(snn) = 0
    /\ snn.arrays = NoArrays
    /\ CallStdpSetup(ManualStdpMenu)

ManualAddSpike ==
    /\ num_neurons(snn) = MaxManualNeurons
    /\ CallAddSpike({s \in ManualSpikeMenu :
                        ~has_spike(snn.input_spikes, s[1], s[2], s[3])}, FALSE)

ManualSetManualSetup ==
    /\ ~snn.manual_setup
    /\ CallSetManualSetup

ManualSetup ==
    /\ num_neurons(snn) = MaxManualNeurons
    /\ CallSetup

ManualSetupInputSpikes ==
    /\ num_neurons(snn) = MaxManualNeurons
    /\ CallSetupInputSpikes(ManualSteps)

ManualSimulate ==
    \E T \in ManualSteps : now + T <= MaxManualTicks /\ CallSimulateManual({T})

NextManual ==
    \/ ManualCreateNeuron
    \/ ManualCreateSynapse
    \/ ManualStdpSetup
    \/ ManualAddSpike
    \/ ManualSetManualSetup
    \/ ManualSetup
    \/ ManualSetupInputSpikes
    \/ ManualSimulate

SpecManual == Init /\ [][NextManual]_vars

(***************************************************************************)
(* reset() between simulate calls, with and without manual setup           *)
(***************************************************************************)

MaxLifecycleTicks == 3

LifecycleNeurons ==
    << { Neuron(0, 0, 0, 2) },
       { [Neuron(1, 0, 1, 0) EXCEPT !.initial_state = 1] } >>
LifecycleSynapseMenu == { <<0, 1, 1, 1, TRUE>>, <<0, 1, 2, 1, FALSE>> }
LifecycleStdpMenu ==
    { [time_steps |-> 2, Apos |-> <<2, 1>>, Aneg |-> <<-1, -1>>,
       positive_update |-> TRUE, negative_update |-> TRUE] }
LifecycleSpikeMenu == { <<0, 0, 1>>, <<1, 0, 2>>, <<2, 0, 1>> }
LifecycleSteps == {1, 2}

LifecycleCreateNeuron ==
    /\ num_neurons(snn) < Len(LifecycleNeurons)
    /\ CallCreateNeuron(LifecycleNeurons[num_neurons(snn) + 1], FALSE)

LifecycleCreateSynapse ==
    /\ created = << >>
    /\ num_neurons(snn) = Len(LifecycleNeurons)
    /\ snn.arrays = NoArrays
    /\ now = 0
    /\ CallCreateSynapse(LifecycleSynapseMenu)

LifecycleStdpSetup ==
    /\ stdp_time_steps(snn) = 0
    /\ created # << >>
    /\ snn.arrays = NoArrays
    /\ now = 0
    /\ CallStdpSetup(LifecycleStdpMenu)

LifecycleAddSpike ==
    /\ created # << >>
    /\ snn.arrays = NoArrays
    /\ now = 0
    /\ CallAddSpike({s \in LifecycleSpikeMenu :
                        ~has_spike(snn.input_spikes, s[1], s[2], s[3])}, FALSE)

\* manual_setup is chosen before the first simulate call
LifecycleSetManualSetup ==
    /\ ~snn.manual_setup
    /\ now = 0
    /\ CallSetManualSetup

LifecycleSetup ==
    /\ created # << >>
    /\ snn.manual_setup
    /\ CallSetup

LifecycleSetupInputSpikes ==
    /\ snn.arrays.built
    /\ CallSetupInputSpikes(LifecycleSteps)

LifecycleSimulateManual ==
    /\ snn.arrays.built
    /\ \E T \in LifecycleSteps : now + T <= MaxLifecycleTicks /\ CallSimulateManual({T})

\* simulate on the cpu backend without manual setup
LifecycleSimulate ==
    /\ ~snn.manual_setup
    /\ created # << >>
    /\ \E T \in LifecycleSteps : now + T <= MaxLifecycleTicks /\ CallSimulateCpu({T}, FALSE)

LifecycleReset ==
    /\ Len(snn.spike_train) > 0
    /\ CallReset

NextLifecycle ==
    \/ LifecycleCreateNeuron
    \/ LifecycleCreateSynapse
    \/ LifecycleStdpSetup
    \/ LifecycleAddSpike
    \/ LifecycleSetManualSetup
    \/ LifecycleSetup
    \/ LifecycleSetupInputSpikes
    \/ LifecycleSimulateManual
    \/ LifecycleSimulate
    \/ LifecycleReset

SpecLifecycle == Init /\ [][NextLifecycle]_vars

(***************************************************************************)
(* Claims                                                                  *)
(***************************************************************************)

\* the model and schedule of test_refractory_one, after its simulate(10)
RefractoryOneRun ==
    /\ snn.neuron_thresholds = <<0>>
    /\ snn.neuron_leaks = <<Inf>>
    /\ snn.neuron_reset_states = <<0>>
    /\ snn.neuron_refractory_periods = <<2>>
    /\ num_synapses(snn) = 0
    /\ sched = << << <<0, 1>> >>, << <<0, 3>> >>, << <<0, 4>> >>, << <<0, 1>> >> >>
    /\ now = 10

\* C1: refractory correctness.  Whenever the log holds a spike of a neuron with
\* refractory period R at some tick, it holds 0 for that neuron at each of the
\* next R logged ticks, whatever input arrived; and the neuron of
\* test_refractory_one (threshold 0, period 2, default leak, amplitudes 1, 3, 4, 1
\* at ticks 1..4, 10 ticks) logs exactly 0,1,0,0,1,0,0,0,0,0.
C1_RefractoryCorrectness ==
    /\ \A n \in 0..(num_neurons(snn) - 1) : \A k \in 1..Len(snn.spike_train) :
          snn.spike_train[k][n + 1] = 1 =>
              \A j \in 1..snn.neuron_refractory_periods[n + 1] :
                  k + j <= Len(snn.spike_train) => snn.spike_train[k + j][n + 1] = 0
    /\ RefractoryOneRun => SpikesOf(snn, 0) = <<0, 1, 0, 0, 1, 0, 0, 0, 0, 0>>

\* C1's case: the run of test_refractory_one is complete, and the input of ticks 2
\* and 3 (above threshold) was suppressed by the gate
C1_Witness ==
    /\ RefractoryOneRun
    /\ TickOf(3).raw[1] = 1 /\ snn.spike_train[3][1] = 0
    /\ TickOf(4).raw[1] = 1 /\ snn.spike_train[4][1] = 0

\* C8: strict threshold.  In every logged tick the raw fire decision of a neuron
\* is 1 exactly when its state after leak and integration is strictly greater
\* than its threshold; a neuron whose integrated state equals its threshold logs no
\* spike, and a neuron that entered the tick with refractory state 0 logs a
\* spike exactly when its integrated state exceeds the threshold.
C8_StrictThreshold ==
    \A k \in 1..Len(snn.spike_train) : \A n \in 1..Len(snn.spike_train[k]) :
        LET r == TickOf(k)
        IN  /\ r.raw[n] = 1 <=> r.integrated[n] > snn.neuron_thresholds[n]
            /\ r.integrated[n] = snn.neuron_thresholds[n] => snn.spike_train[k][n] = 0
            /\ r.refractory_in[n] = 0 =>
                  (snn.spike_train[k][n] = 1 <=> r.integrated[n] > snn.neuron_thresholds[n])

\* C8's case: a neuron that is not refractory receives input that brings its state
\* exactly to its non-zero threshold, and does not fire
C8_Witness ==
    \E k \in 1..Len(snn.spike_train) : \E n \in 1..Len(snn.spike_train[k]) :
        /\ snn.neuron_thresholds[n] = 1
        /\ TickOf(k).input[n] = 1
        /\ TickOf(k).integrated[n] = 1
        /\ TickOf(k).refractory_in[n] = 0
        /\ snn.spike_train[k][n] = 0

\* the model and schedule of test_refractory_two, after its simulate(10)
RefractoryTwoRun ==
    /\ snn.neuron_thresholds = <<-1, 0, 0>>
    /\ snn.neuron_reset_states = <<-1, 0, 0>>
    /\ snn.neuron_refractory_periods = <<2, 1000000, 0>>
    /\ Len(created) = 1 /\ created[1].delay = 2 /\ created[1].weight = 2
    /\ sched = [t \in {1, 2, 3, 5} |->
                   IF t = 1 THEN << <<1, -1>> >> ELSE << <<0, 10>> >>]
    /\ now = 10

\* whether the log holds a spike of the presynaptic neuron of the created synapse c
\* exactly c.delay ticks before its k-th entry
PreSpiked(c, k) ==
    /\ k - c.delay >= 1
    /\ snn.spike_train[k - c.delay][c.pre_id + 1] = 1

\* what the created synapses add to neuron id j in the integrate stage of the k-th
\* logged tick when each adds its weight, delay ticks after every presynaptic spike
DelayedInput(j, k) ==
    SumUpTo([i \in 1..Len(created) |->
                IF created[i].post_id = j /\ PreSpiked(created[i], k)
                THEN created[i].weight ELSE 0], Len(created))

\* no two created synapses of delay 1 join the same pair of neurons (a longer
\* delay ends in a relay of its own)
UniquePairs ==
    \A i, j \in 1..Len(created) :
        (created[i].pre_id = created[j].pre_id /\ created[i].post_id = created[j].post_id)
            => (i = j \/ created[i].delay > 1 \/ created[j].delay > 1)

\* the timing of every created synapse, and the run of test_refractory_two
DelayTiming ==
    /\ \A k \in 1..Len(snn.spike_train) : \A c \in 1..Len(created) :
          TickOf(k).synaptic[created[c].post_id + 1] = DelayedInput(created[c].post_id, k)
    /\ RefractoryTwoRun =>
          /\ SpikesOf(snn, 0) = <<0, 0, 1, 0, 0, 1, 0, 0, 0, 0>>
          /\ SpikesOf(snn, 2) = <<0, 0, 0, 1, 0, 0, 1, 0, 0, 0>>
          /\ SpikesOf(snn, 1) = <<0, 0, 0, 0, 1, 0, 0, 0, 0, 0>>
          /\ TickOf(5).synaptic[2] = 2 /\ TickOf(8).synaptic[2] = 2

\* C2: delay timing.  For every synapse created with weight w and delay d, every
\* logged spike of its presynaptic neuron at tick t adds exactly w to the
\* postsynaptic neuron's state in the integrate stage of tick t + d and of no
\* other tick; in test_refractory_two (d = 2) pre fires at ticks 2 and 5, the relay
\* at 3 and 6, and post receives the weight at ticks 4 and 7.
C2_DelayTiming == DelayTiming

\* the part of C2 that the code keeps: the same, for models in which no two
\* synapses of delay 1 join the same pair of neurons
C2_DelayTimingUniquePairs == UniquePairs => DelayTiming

Observables(m) ==
    << m.spike_train, m.neuron_states, m.neuron_refractory_periods_state,
       m.synaptic_weights, m.input_spikes >>

SplitSteps == {1, 2}
SplitExample == 21

RECURSIVE simulate_each(_, _)
\* for _i in range(calls): snn.simulate(1)
simulate_each(m, calls) ==
    IF calls = 0 THEN m ELSE simulate_each(simulate_cpu(m, 1), calls - 1)

\* C4: split-run equivalence.  From every model, simulate(a) followed by
\* simulate(b) on the cpu backend leaves the same spike_train, neuron_states,
\* refractory states, synaptic_weights and remaining input_spikes as one
\* simulate(a + b); 21 calls of simulate(1) leave the same as one simulate(21).
C4_SplitRun ==
    /\ \A a, b \in SplitSteps :
          Observables(simulate_cpu(simulate_cpu(snn, a), b))
              = Observables(simulate_cpu(snn, a + b))
    /\ now = 0 =>
          Observables(simulate_each(snn, SplitExample))
              = Observables(simulate_cpu(snn, SplitExample))

\* C4's case: the first call ends on a tick in which neuron 0 fired, input is
\* still pending after it, and the second call has neuron 1 receive that spike
\* through a synapse and changes a weight by STDP
C4_Witness ==
    \E a, b \in SplitSteps :
        LET first == simulate_cpu(snn, a)
            second == simulate_cpu(first, b)
        IN  /\ num_neurons(snn) = Len(StdpNeurons)
            /\ simulate_cpu_error(snn, a) = "" /\ simulate_cpu_error(first, b) = ""
            /\ first.spike_train[Len(first.spike_train)][1] = 1
            /\ weight_mat(first)[1][2] # 0
            /\ DOMAIN first.input_spikes # {}
            /\ second.synaptic_weights # first.synaptic_weights
            /\ second.spike_train[Len(first.spike_train) + 1][2] = 1

\* C6: backend equivalence.  Every simulate(use='jit') completes, and from every
\* model with neurons, for the same time_steps, the jit backend completes where
\* the cpu backend does and leaves the same spike train, weights, neuron states
\* and refractory states.
C6_BackendEquivalence ==
    /\ last_used_backend = "jit" => err = ""
    /\ \A T \in StdpSteps :
          (num_neurons(snn) > 0 /\ simulate_cpu_error(snn, T) = "") =>
              /\ simulate_cpu_jit_error(snn, T) = ""
              /\ Observables(simulate_cpu_jit(snn, T)) = Observables(simulate_cpu(snn, T))

\* the weight the stored synapse s was created with: the weight of the
\* create_synapse call whose last synapse it is, 1 for a relay synapse
CreatedWeight(s) ==
    IF \E c \in 1..Len(created) : s = created[c].synapses + created[c].delay
    THEN created[CHOOSE c \in 1..Len(created) :
                     s = created[c].synapses + created[c].delay].weight
    ELSE 1

\* C9: STDP masking.  The weight of every synapse created with
\* stdp_enabled = false, relay synapses included, is after any sequence of
\* simulate calls what it was at creation, also when another synapse on the same
\* (pre, post) pair has stdp_enabled = true.
C9_StdpMasking ==
    \A s \in 1..num_synapses(snn) :
        ~snn.enable_stdp[s] => snn.synaptic_weights[s] = CreatedWeight(s)

\* no two stored synapses join the same pair of neurons
StoredPairsUnique ==
    \A s, u \in 1..num_synapses(snn) :
        (/\ snn.pre_synaptic_neuron_ids[s] = snn.pre_synaptic_neuron_ids[u]
         /\ snn.post_synaptic_neuron_ids[s] = snn.post_synaptic_neuron_ids[u]) => s = u

\* the part of C9 that the code keeps: the same, for models without two synapses
\* on one pair
C9_StdpMaskingUniquePairs == StoredPairsUnique => C9_StdpMasking

\* the change STDP makes to W[a][b] at the k-th logged tick when exactly `lags`
\* lags are applied, lag i pairing the vector logged i ticks before the k-th with
\* the k-th: Apos[i] where both neurons fired, Aneg[i] where not
StdpChange(k, lags, a, b) ==
    stdp_enabled_mat(snn)[a][b] *
    SumUpTo([i \in 1..lags |->
                LET c == snn.spike_train[k - i][a] * snn.spike_train[k][b]
                IN  (IF snn.stdp_positive_update THEN snn.stdp_Apos[i] * c ELSE 0)
                  + (IF snn.stdp_negative_update THEN snn.stdp_Aneg[i] * (1 - c) ELSE 0)],
            lags)

\* C10: STDP window truncation.  At the k-th logged tick the lags applied are
\* t_eff = min(K, k - 1): the weights change by the sum over exactly these lags,
\* the first tick on an empty spike train changes no weight, a lag without a
\* logged vector adds nothing, and no simulate call raises, also when fewer
\* than K ticks are run.
C10_StdpWindow ==
    /\ last_used_backend = "cpu" => err = ""
    /\ \A k \in 1..Len(snn.spike_train) :
          LET t_eff == Min2(stdp_time_steps(snn), k - 1)
          IN  /\ TickOf(k).lags \in {0, t_eff}
              /\ k = 1 => TickOf(k).weights_out = TickOf(k).weights_in
              /\ \A a, b \in 1..num_neurons(snn) :
                    TickOf(k).weights_out[a][b]
                        = TickOf(k).weights_in[a][b] + StdpChange(k, t_eff, a, b)

\* C10's case: a window of K lags, fewer than K ticks run without an error, and
\* a tick after the first whose truncated window changed a weight
C10_Witness ==
    /\ last_used_backend = "cpu" /\ err = ""
    /\ 1 < now /\ now < stdp_time_steps(snn)
    /\ snn.stdp_negative_update
    /\ \E k \in 2..Len(snn.spike_train) :
          /\ TickOf(k).lags = k - 1
          /\ TickOf(k).weights_out # TickOf(k).weights_in
    /\ TickOf(1).weights_out = TickOf(1).weights_in

\* the add_spike calls for neuron id n and absolute tick k, in call order
ScheduledFor(k, n) ==
    IF k \in DOMAIN sched THEN SelectSeq(sched[k], LAMBDA p : p[1] = n) ELSE << >>

\* the values of all of them, added up
ScheduledSum(k, n) ==
    SumUpTo([i \in 1..Len(ScheduledFor(k, n)) |-> ScheduledFor(k, n)[i][2]],
            Len(ScheduledFor(k, n)))

\* the value of the last of them
ScheduledLast(k, n) ==
    IF ScheduledFor(k, n) = << >> THEN 0
    ELSE ScheduledFor(k, n)[Len(ScheduledFor(k, n))][2]

\* after every call, input_spikes holds exactly the spikes of the absolute ticks
\* not yet run, under the key absolute tick - ticks run
InputKept ==
    /\ DOMAIN snn.input_spikes = {t - now : t \in {u \in DOMAIN sched : u >= now}}
    /\ \A t \in DOMAIN sched : t >= now => snn.input_spikes[t - now] = sched[t]

\* C5 as stated: idempotent input consumption.  After simulate(T) the spikes
\* of ticks below T are gone and those of a tick k >= T are kept under k - T;
\* over any sequence of calls every scheduled spike is applied exactly once, at
\* its absolute tick: the input of a neuron at a tick is the sum of the spikes
\* scheduled for it at that tick.
C5_InputConsumptionAsStated ==
    /\ InputKept
    /\ \A k \in 0..(now - 1) : \A n \in 0..(num_neurons(snn) - 1) :
          trace[k + 1].input[n + 1] = ScheduledSum(k, n)

\* C5, amended: the same, except that of several spikes scheduled for the same
\* neuron and tick only the one added last is applied, once, at that tick.
C5_InputConsumption ==
    /\ InputKept
    /\ \A k \in 0..(now - 1) : \A n \in 0..(num_neurons(snn) - 1) :
          trace[k + 1].input[n + 1] = ScheduledLast(k, n)

\* C5's case: the spike add_spike(2, 1, 1) of tick 2, which no first call of 1 or
\* 2 ticks reaches, was kept and applied at tick 2 of a later call; a spike of a
\* tick not yet run is still kept; tick 1 had two spikes for neuron 0
C5_Witness ==
    /\ now >= 3
    /\ ScheduledFor(2, 1) = << <<1, 1>> >>
    /\ trace[3].input[2] = 1
    /\ DOMAIN snn.input_spikes # {}
    /\ Len(ScheduledFor(1, 0)) = 2

\* the weights of all stored synapses from neuron id i to neuron id j, added up
PairWeightSum(i, j) ==
    SumUpTo([s \in 1..num_synapses(snn) |->
                IF snn.pre_synaptic_neuron_ids[s] = i /\ snn.post_synaptic_neuron_ids[s] = j
                THEN snn.synaptic_weights[s] ELSE 0], num_synapses(snn))

\* C11: duplicate synapses accumulate.  The entry W[pre][post] that the integrate
\* stage of every logged tick uses is the sum of the weights of all synapses
\* created for the pair (pre, post), not the weight of the last one.
C11_DuplicatesAccumulate ==
    \A k \in 1..Len(snn.spike_train) : \A i, j \in 0..(num_neurons(snn) - 1) :
        TickOf(k).weights_in[i + 1][j + 1] = PairWeightSum(i, j)

\* the part of C11 that the code keeps: the same for models without two synapses
\* on one pair
C11_SingleSynapses == StoredPairsUnique => C11_DuplicatesAccumulate

\* the internal states at the end of the k-th logged tick: what the next tick
\* starts from, or what the last call wrote back
EndStates(k) ==
    IF k < Len(snn.spike_train) THEN TickOf(k + 1).before ELSE snn.neuron_states

\* C12: infinite leak.  A neuron with leak = +infinity that receives no external
\* input and no synaptic input in a tick is exactly at its reset state at the end
\* of that tick, whatever its state before the tick and whether or not it is
\* refractory.
C12_InfiniteLeak ==
    \A k \in 1..Len(snn.spike_train) : \A n \in 1..num_neurons(snn) :
        (/\ snn.neuron_leaks[n] = Inf
         /\ TickOf(k).input[n] = 0
         /\ TickOf(k).synaptic[n] = 0)
            => EndStates(k)[n] = snn.neuron_reset_states[n]

\* C12's case: a refractory neuron with infinite leak starts a tick above or
\* below its reset state, receives nothing, and ends the tick at its reset state;
\* and another does so from below its reset state
C12_Witness ==
    /\ \E k \in 1..Len(snn.spike_train) : \E n \in 1..num_neurons(snn) :
          /\ snn.neuron_leaks[n] = Inf
          /\ TickOf(k).input[n] = 0 /\ TickOf(k).synaptic[n] = 0
          /\ TickOf(k).refractory_in[n] > 0
          /\ TickOf(k).before[n] # snn.neuron_reset_states[n]
          /\ EndStates(k)[n] = snn.neuron_reset_states[n]
    /\ \E k \in 1..Len(snn.spike_train) : \E n \in 1..num_neurons(snn) :
          /\ snn.neuron_leaks[n] = Inf
          /\ TickOf(k).input[n] = 0 /\ TickOf(k).synaptic[n] = 0
          /\ TickOf(k).before[n] < snn.neuron_reset_states[n]

\* the model and schedule of test_refractory_newdelay, after its simulate(10)
RefractoryNewDelayRun ==
    /\ Len(created) = 1 /\ created[1].delay = 2 /\ created[1].weight = 2
    /\ sched = [t \in {1, 2, 3, 5} |->
                   IF t = 1 THEN << <<1, -1>> >> ELSE << <<0, 10>> >>]
    /\ now = 10

\* C13: non-chained delay.  With use_chained_delay = False on the model,
\* create_synapse with a delay above 1 adds no neuron: num_neurons is what it was
\* before the call and every logged spike vector has one entry per user-created
\* neuron; the weight still arrives delay ticks after every presynaptic spike,
\* and test_refractory_newdelay logs neuron 0 at ticks 2 and 5, neuron 1 at 4.
C13_NonChainedDelay ==
    /\ \A c \in 1..Len(created) : num_neurons(snn) = created[c].neurons
    /\ \A k \in 1..Len(snn.spike_train) :
          Len(snn.spike_train[k]) = Len(NonChainedNeurons)
    /\ \A k \in 1..Len(snn.spike_train) : \A c \in 1..Len(created) :
          TickOf(k).synaptic[created[c].post_id + 1] = DelayedInput(created[c].post_id, k)
    /\ RefractoryNewDelayRun =>
          snn.spike_train = << <<0, 0>>, <<0, 0>>, <<1, 0>>, <<0, 0>>, <<0, 1>>,
                               <<1, 0>>, <<0, 0>>, <<0, 0>>, <<0, 0>>, <<0, 0>> >>

\* the part of C13 that the code keeps: the timing, and the columns of the two
\* user-created neurons in test_refractory_newdelay
C13_TimingOnly ==
    /\ \A k \in 1..Len(snn.spike_train) : \A c \in 1..Len(created) :
          TickOf(k).synaptic[created[c].post_id + 1] = DelayedInput(created[c].post_id, k)
    /\ RefractoryNewDelayRun =>
          /\ SpikesOf(snn, 0) = <<0, 0, 1, 0, 0, 1, 0, 0, 0, 0>>
          /\ SpikesOf(snn, 1) = <<0, 0, 0, 0, 1, 0, 0, 0, 0, 0>>


\* C14: after any sequence of create_neuron and create_synapse calls every
\* stored synapse has 0 <= pre < num_neurons and 0 <= post < num_neurons, a
\* call naming a neuron id >= num_neurons having been rejected.
C14_SynapseEndpoints ==
    \A s \in 1..num_synapses(snn) :
        /\ 0 <= snn.pre_synaptic_neuron_ids[s]
        /\ snn.pre_synaptic_neuron_ids[s] < num_neurons(snn)
        /\ 0 <= snn.post_synaptic_neuron_ids[s]
        /\ snn.post_synaptic_neuron_ids[s] < num_neurons(snn)

\* the half of C14 that create_synapse enforces: no stored endpoint is negative
C14_EndpointsNonNegative ==
    \A s \in 1..num_synapses(snn) :
        /\ 0 <= snn.pre_synaptic_neuron_ids[s]
        /\ 0 <= snn.post_synaptic_neuron_ids[s]

\* the neuron lists, the synapse lists and the input spikes of a model
ConstructionState(m) ==
    <<m.neuron_thresholds, m.neuron_leaks, m.neuron_states, m.neuron_reset_states,
      m.neuron_refractory_periods, m.neuron_refractory_periods_state,
      m.pre_synaptic_neuron_ids, m.post_synaptic_neuron_ids, m.synaptic_weights,
      m.synaptic_delays, m.enable_stdp, m.input_spikes>>

ConstructionErrors ==
    { "ValueError: leak must be grater than or equal to zero",
      "ValueError: refractory_period must be greater than or equal to zero",
      "ValueError: refractory_state must be greater than or equal to zero",
      "ValueError: pre_id must be greater than or equal to zero",
      "ValueError: post_id must be greater than or equal to zero",
      "ValueError: delay must be greater than or equal to 1",
      "ValueError: time must be greater than or equal to zero",
      "ValueError: neuron_id must be greater than or equal to zero" }

\* C15: on whatever model it is called, create_neuron with leak < 0,
\* refractory_period < 0 or refractory_state < 0, create_synapse with
\* delay <= 0 or a negative neuron id, and add_spike with time < 0 or a
\* negative neuron id raise an error, and the neuron lists, the synapse lists
\* and input_spikes after the call are the ones before it.
C15_ConstructionErrors ==
    /\ \A k \in ErrNeurons :
          (k.leak < 0 \/ k.refractory_period < 0 \/ k.refractory_state < 0) =>
             /\ create_neuron_error(k.leak, k.refractory_period, k.refractory_state)
                   \in ConstructionErrors
             /\ ConstructionState(create_neuron_call(snn, k)) = ConstructionState(snn)
    /\ \A s \in ErrSynapseMenu :
          (s[4] <= 0 \/ s[1] < 0 \/ s[2] < 0) =>
             /\ create_synapse_error(s[1], s[2], s[4]) \in ConstructionErrors
             /\ ConstructionState(create_synapse_call(snn, s[1], s[2], s[3], s[4], s[5]))
                   = ConstructionState(snn)
    /\ \A s \in ErrSpikeMenu :
          (s[1] < 0 \/ s[2] < 0) =>
             /\ add_spike_error(s[1], s[2]) \in ConstructionErrors
             /\ ConstructionState(add_spike_call(snn, s[1], s[2], s[3]))
                   = ConstructionState(snn)

\* a call was rejected on a model that already holds neurons, a delayed
\* synapse with its relay neuron, and an input spike
C15_Witness ==
    /\ err \in ConstructionErrors
    /\ num_neurons(snn) > MaxErrNeurons
    /\ num_synapses(snn) > 1
    /\ DOMAIN snn.input_spikes # {}

\* the STDP configuration a model stores
StdpConfiguration(m) ==
    <<m.stdp_Apos, m.stdp_Aneg, m.stdp_positive_update, m.stdp_negative_update>>

\* C16: on whatever model it is called, stdp_setup raises when an enabled
\* kernel has a length different from time_steps or when no synapse has STDP
\* enabled, and the stored Apos, Aneg and update flags are then the ones before
\* the call; a call that succeeds with both updates enabled stores kernels of
\* length time_steps.
C16_StdpSetupErrors ==
    \A c \in ErrStdpMenu :
        LET e == stdp_setup_error(snn, c.time_steps, c.Apos, c.Aneg,
                                  c.positive_update, c.negative_update)
            after == stdp_setup_call(snn, c)
        IN  /\ ( \/ c.positive_update /\ Len(c.Apos) # c.time_steps
                 \/ c.negative_update /\ Len(c.Aneg) # c.time_steps
                 \/ ~AnyTrue(snn.enable_stdp) ) =>
                   /\ e # ""
                   /\ StdpConfiguration(after) = StdpConfiguration(snn)
            /\ (e = "" /\ c.positive_update /\ c.negative_update) =>
                   /\ Len(after.stdp_Apos) = c.time_steps
                   /\ Len(after.stdp_Aneg) = c.time_steps

\* a call with a short Aneg was rejected after an earlier call had stored
\* its kernels
C16_Witness ==
    /\ err = "ValueError: Length of Aneg should be 2"
    /\ snn.stdp_Apos = <<3, 3>>
    /\ ~snn.stdp_negative_update


\* the canonical state of a model that a run advances
Canonical(m) ==
    <<m.spike_train, m.neuron_states, m.neuron_refractory_periods_state,
      m.synaptic_weights, m.input_spikes>>

\* what a call raises for its backend: the unknown name, numba missing for
\* jit or gpu, and no CUDA device for gpu
BackendErrors ==
    { "ValueError: Invalid backend: tpu", check_numba, check_gpu, "CudaSupportError" }

\* a call of simulate on the current model names an unknown backend, or one
\* whose capability is missing
BackendRejected(time_steps, use) ==
    LET u == simulate_use(snn, numba, time_steps, use)
    IN  \/ u \notin {"cpu", "jit", "gpu", ""}
        \/ u = "jit" /\ ~numba
        \/ u = "gpu" /\ ~snn.gpu

BackendErrorStep ==
    err' \in BackendErrors => Canonical(snn') = Canonical(snn)

\* C17: simulate with an unknown backend name, or with a backend whose
\* capability is missing, raises, and a call that raises such an error leaves
\* spike_train, neuron_states, the refractory states, synaptic_weights and
\* input_spikes as they were before the call.
C17_BackendErrors ==
    /\ [](\A time_steps \in DispatchSteps, use \in DispatchUses :
             BackendRejected(time_steps, use) =>
                simulate_error(snn, numba, time_steps, use) \in BackendErrors)
    /\ [][BackendErrorStep]_vars

\* an unknown backend name was rejected on a model that an earlier run had
\* advanced and that still holds a scheduled input spike
C17_Witness ==
    /\ err = "ValueError: Invalid backend: tpu"
    /\ Len(snn.spike_train) > 0
    /\ DOMAIN snn.input_spikes # {}

\* the hint of a call: the argument `use` when given, else model.backend
BackendHint(use) == IF use # None THEN use ELSE snn.backend

\* the choice C18 states for a call on the current model
StatedBackend(time_steps, use) ==
    LET score == num_neurons(snn) + 100 * time_steps
    IN  IF BackendHint(use) # "auto" THEN BackendHint(use)
        ELSE IF snn.gpu /\ score > 10000 THEN "gpu"
        ELSE IF numba /\ score > 1000 THEN "jit"
        ELSE "cpu"

\* C18: the backend simulate runs is the argument `use` when given, else
\* model.backend; when that is 'auto' it is 'gpu' if a GPU is available and
\* num_neurons + 100 * time_steps > 10000, else 'jit' if numba is available and
\* the score is > 1000, else 'cpu'; a hint that names a backend is never
\* replaced by the automatic choice.
C18_BackendSelection ==
    \A time_steps \in DispatchSteps, use \in DispatchUses :
        BackendHint(use) \in {"auto", "cpu", "jit", "gpu"} =>
            /\ simulate_driver(snn, numba, time_steps, use) = StatedBackend(time_steps, use)
            /\ simulate_last_used_backend(snn, numba, time_steps, use, last_used_backend)
                  = StatedBackend(time_steps, use)

\* a run of 100 ticks on one neuron went to the GPU driver although the call
\* named 'cpu' nowhere and the property was 'auto': score 10001
C18_Witness ==
    /\ last_used_backend = "gpu"
    /\ err = ""
    /\ snn.backend = "auto"
    /\ num_neurons(snn) = 1
    /\ now = 100

SimulateErrorStep ==
    (~snn.manual_setup /\ err' # "") => Canonical(snn') = Canonical(snn)

\* C20: without manual setup a simulate call that aborts with an error (the
\* callback raising at tick k > 0, say) leaves spike_train, neuron_states, the
\* refractory states, synaptic_weights and input_spikes as before the call.
C20_ErrorsLeaveModelUnchanged == [][SimulateErrorStep]_vars

SimulateErrorKeeps ==
    (~snn.manual_setup /\ err' # "") =>
        /\ snn'.neuron_states = snn.neuron_states
        /\ snn'.neuron_refractory_periods_state = snn.neuron_refractory_periods_state
        /\ snn'.synaptic_weights = snn.synaptic_weights
        /\ snn'.input_spikes = snn.input_spikes
        /\ Len(snn'.spike_train) = Len(snn.spike_train) + Len(call'.invoked) - 1
        /\ \A k \in 1..Len(snn.spike_train) : snn'.spike_train[k] = snn.spike_train[k]

\* what the code keeps of C20: an aborted call leaves everything but the spike
\* train, which has gained the ticks completed before the exception
C20_OnlySpikeTrainAdvances == [][SimulateErrorKeeps]_vars

\* a simulate call has logged a tick and neurons were added since
Grown ==
    /\ Len(snn.spike_train) > 0
    /\ Len(snn.spike_train[Len(snn.spike_train)]) < num_neurons(snn)

\* a step of simulate taken on a grown object returns, and each vector it
\* logs has one entry per neuron
GrownSimulateStep ==
    (Grown /\ (now' > now \/ err' # "")) =>
        /\ err' = ""
        /\ \A k \in Len(snn.spike_train) + 1..Len(snn'.spike_train) :
              Len(snn'.spike_train[k]) = num_neurons(snn')

\* C21: after a simulate call has logged a tick, create_neuron (or
\* create_synapse with a delay above 1) followed by simulate succeeds, and
\* every spike vector the later call logs has length num_neurons.
C21_GrowBetweenRuns == [][GrownSimulateStep]_vars

\* the sum the update rule states for the pair (a, b) at the k-th logged tick
\* over the lags 0..t_eff-1, lag i pairing Apos[i] and Aneg[i] with the
\* coincidence of the pre vector logged i + 1 ticks before and the post vector
\* of the tick
StatedStdpSum(k, t_eff, a, b) ==
    SumUpTo([j \in 1..t_eff |->
                LET c == snn.spike_train[k - j][a] * snn.spike_train[k][b]
                IN  (IF snn.stdp_positive_update THEN snn.stdp_Apos[j] * c ELSE 0)
                  + (IF snn.stdp_negative_update THEN snn.stdp_Aneg[j] * (1 - c) ELSE 0)],
            t_eff)

\* the update rule on the matrix entry of every stored synapse that has
\* stdp_enabled = true
StdpUpdateRule ==
    \A k \in 1..Len(snn.spike_train) :
        LET t_eff == Min2(stdp_time_steps(snn), k - 1)
        IN  t_eff >= 1 =>
              \A s \in 1..num_synapses(snn) :
                  LET a == snn.pre_synaptic_neuron_ids[s] + 1
                      b == snn.post_synaptic_neuron_ids[s] + 1
                  IN  snn.enable_stdp[s] =>
                        TickOf(k).weights_out[a][b]
                            = TickOf(k).weights_in[a][b] + StatedStdpSum(k, t_eff, a, b)

\* C22: STDP update rule.  At every tick with t_eff >= 1 the weight of every
\* synapse with stdp_enabled = true is after the tick its weight before plus
\* the sum over the lags i < t_eff of Apos[i] * c_i (positive update active)
\* and Aneg[i] * (1 - c_i) (negative update active), c_i being 1 exactly when
\* the pre neuron spiked i + 1 ticks before and the post neuron spiked in the
\* tick; nothing is clamped or normalised.
C22_StdpUpdateRule == StdpUpdateRule

\* what the code keeps of C22: the rule, for models without two synapses on
\* one pair of neurons
C22_StdpUpdateRuleUniquePairs == StoredPairsUnique => StdpUpdateRule

\* the leak stage as stated, for one neuron: towards the reset state by at
\* most leak, from above or from below, and no move at the reset state
StatedLeak(state, reset_state, leak) ==
    IF state > reset_state THEN Max2(state - leak, reset_state)
    ELSE IF state < reset_state THEN Min2(state + leak, reset_state)
    ELSE state

\* what the k-th logged tick integrated for neuron n without the input and
\* the synaptic contribution of that tick: the state the leak stage left
LeakedOf(k, n) == TickOf(k).integrated[n] - TickOf(k).input[n] - TickOf(k).synaptic[n]

\* C23: leak is clamped and precedes integration.  In every logged tick the
\* leak stage takes the state carried over from the previous tick to
\* max(state - leak, reset_state) from above, min(state + leak, reset_state)
\* from below, and leaves it when it is the reset state or leak is 0, so it
\* never crosses the reset state; the input and the synaptic contribution of
\* the tick are added after it, in full.
C23_LeakBeforeIntegration ==
    \A k \in 1..Len(snn.spike_train) : \A n \in 1..num_neurons(snn) :
        LET before == TickOf(k).before[n]
            reset_state == snn.neuron_reset_states[n]
            leak == snn.neuron_leaks[n]
        IN  /\ LeakedOf(k, n) = StatedLeak(before, reset_state, leak)
            /\ before >= reset_state => LeakedOf(k, n) >= reset_state
            /\ before <= reset_state => LeakedOf(k, n) <= reset_state
            /\ (before = reset_state \/ leak = 0) => LeakedOf(k, n) = before
            /\ TickOf(k).raw[n] = 1 <=>
                   StatedLeak(before, reset_state, leak) + TickOf(k).input[n]
                       + TickOf(k).synaptic[n] > snn.neuron_thresholds[n]

\* C23's case: a neuron with leak 1 starts a tick above its reset state and
\* receives a synaptic contribution that is integrated in full, and a neuron
\* with leak 0 starts a tick below its reset state and keeps its state
C23_Witness ==
    /\ \E k \in 1..Len(snn.spike_train) : \E n \in 1..num_neurons(snn) :
          /\ snn.neuron_leaks[n] = 1
          /\ TickOf(k).before[n] > snn.neuron_reset_states[n]
          /\ TickOf(k).synaptic[n] > 0
          /\ TickOf(k).integrated[n] = TickOf(k).before[n] - 1 + TickOf(k).synaptic[n]
    /\ \E k \in 1..Len(snn.spike_train) : \E n \in 1..num_neurons(snn) :
          /\ snn.neuron_leaks[n] = 0
          /\ TickOf(k).before[n] < snn.neuron_reset_states[n]
          /\ LeakedOf(k, n) = TickOf(k).before[n]

\* the vector logged for the tick before the k-th logged one; zeros at the
\* first tick on an empty spike train
LoggedBefore(k) ==
    IF k = 1 THEN [n \in 1..num_neurons(snn) |-> 0] ELSE snn.spike_train[k - 1]

\* C24: integration uses the previous tick's post-gate spikes.  The synaptic
\* contribution to neuron j at a tick is the sum of W[i][j] over exactly the
\* neurons i whose logged spike of the tick before is 1: a neuron whose raw
\* fire decision was suppressed by the refractory gate contributes nothing,
\* and the first tick on an empty spike train has no synaptic contribution.
C24_PreviousPostGateSpikes ==
    \A k \in 1..Len(snn.spike_train) : \A j \in 1..num_neurons(snn) :
        /\ TickOf(k).synaptic[j]
               = SumUpTo([i \in 1..num_neurons(snn) |->
                             TickOf(k).weights_in[i][j] * LoggedBefore(k)[i]],
                         num_neurons(snn))
        /\ k = 1 => TickOf(k).synaptic[j] = 0

\* C24's case: a neuron with an outgoing synapse decides to fire while it is
\* refractory, logs 0, and its target receives nothing at the next tick; at
\* another tick the target receives the weight of that synapse
C24_Witness ==
    \E k \in 2..Len(snn.spike_train) : \E i, j \in 1..num_neurons(snn) :
        /\ TickOf(k - 1).raw[i] = 1
        /\ snn.spike_train[k - 1][i] = 0
        /\ TickOf(k).weights_in[i][j] # 0
        /\ TickOf(k).weights_in[j][i] = 0
        /\ TickOf(k).synaptic[j] = 0
        /\ \E h \in 2..Len(snn.spike_train) :
              TickOf(h).synaptic[j] = TickOf(h).weights_in[i][j]

\* the refractory states at the end of the k-th logged tick: what the next
\* tick starts from, or what the object holds after the last one
EndRefractory(k) ==
    IF k < Len(snn.spike_train) THEN TickOf(k + 1).refractory_in
    ELSE snn.neuron_refractory_periods_state

\* C25: gate, arm and reset.  A neuron that enters a tick with
\* refractory_state > 0 logs 0, ends the tick with refractory_state one lower
\* and keeps its leaked and integrated state, also above the threshold; a
\* neuron that logs 1 ends the tick with refractory_state = refractory_period
\* and state = reset_state; a neuron that is neither gated nor spiking keeps
\* its refractory_state.
C25_GateArmReset ==
    \A k \in 1..Len(snn.spike_train) : \A n \in 1..num_neurons(snn) :
        LET r == TickOf(k)
            logged == snn.spike_train[k][n]
        IN  /\ r.refractory_in[n] > 0 =>
                  /\ logged = 0
                  /\ EndRefractory(k)[n] = r.refractory_in[n] - 1
                  /\ EndStates(k)[n] = r.integrated[n]
            /\ logged = 1 =>
                  /\ EndRefractory(k)[n] = snn.neuron_refractory_periods[n]
                  /\ EndStates(k)[n] = snn.neuron_reset_states[n]
            /\ (r.refractory_in[n] = 0 /\ logged = 0) =>
                  /\ EndRefractory(k)[n] = r.refractory_in[n]
                  /\ EndStates(k)[n] = r.integrated[n]

\* C25's case: a neuron with period 2 logs a spike and is armed with 2, is
\* gated at the next tick with a state above its threshold that it keeps
\* while its refractory state goes from 2 to 1, and a neuron at rest keeps
\* refractory state 0
C25_Witness ==
    \E k \in 1..(Len(snn.spike_train) - 1) : \E n \in 1..num_neurons(snn) :
        /\ snn.neuron_refractory_periods[n] = 2
        /\ snn.spike_train[k][n] = 1
        /\ EndRefractory(k)[n] = 2
        /\ TickOf(k + 1).integrated[n] > snn.neuron_thresholds[n]
        /\ snn.spike_train[k + 1][n] = 0
        /\ EndRefractory(k + 1)[n] = 1
        /\ EndStates(k + 1)[n] = TickOf(k + 1).integrated[n]
        /\ \E h \in 1..Len(snn.spike_train) :
              /\ TickOf(h).refractory_in[n] = 0
              /\ snn.spike_train[h][n] = 0
              /\ EndRefractory(h)[n] = 0

\* the kinds a neuron of SpecGrow is created as: those of GrowNeurons, and
\* the relay of a delayed synapse
GrowKinds ==
    UNION { GrowNeurons[i] : i \in DOMAIN GrowNeurons } \cup { Neuron(0, Inf, 0, 0) }

\* the kind the n-th neuron was created as.  The kinds differ in their
\* parameters, which no call changes after creation
CreatedAs(n) ==
    CHOOSE k \in GrowKinds :
        /\ k.threshold = snn.neuron_thresholds[n]
        /\ k.leak = snn.neuron_leaks[n]
        /\ k.reset_state = snn.neuron_reset_states[n]
        /\ k.refractory_period = snn.neuron_refractory_periods[n]

\* C26: a neuron with refractory_period = 0 that was created with
\* refractory_state = 0 is never gated: its refractory_state is 0 at every
\* tick boundary, and its logged spike is its raw fire decision at every
\* tick, so that it can spike on consecutive ticks.
C26_NeverGated ==
    \A n \in 1..num_neurons(snn) :
        (snn.neuron_refractory_periods[n] = 0 /\ CreatedAs(n).refractory_state = 0) =>
            /\ snn.neuron_refractory_periods_state[n] = 0
            /\ \A t \in 1..Len(trace) :
                  n <= Len(trace[t].raw) => trace[t].refractory_in[n] = 0
            /\ \A k \in 1..Len(snn.spike_train) :
                  n <= Len(snn.spike_train[k]) => snn.spike_train[k][n] = TickOf(k).raw[n]

\* C26's case: such a neuron spikes on two consecutive ticks, next to a
\* neuron with period 0 that was created refractory and is gated
C26_Witness ==
    \E k \in 1..(Len(snn.spike_train) - 1) : \E n, g \in 1..Len(snn.spike_train[k]) :
        /\ snn.neuron_refractory_periods[n] = 0
        /\ CreatedAs(n).refractory_state = 0
        /\ snn.spike_train[k][n] = 1
        /\ snn.spike_train[k + 1][n] = 1
        /\ snn.neuron_refractory_periods[g] = 0
        /\ CreatedAs(g).refractory_state > 0
        /\ TickOf(k).refractory_in[g] > 0

\* C27: neuron-array invariant.  After any sequence of create_neuron,
\* create_synapse, add_spike, simulate on the cpu driver and reset, the six
\* per-neuron lists have length num_neurons, every leak is at least 0, and
\* every refractory_state is at least 0 and at most the larger of the
\* neuron's refractory_period and the refractory_state it was created with.
C27_NeuronArrays ==
    /\ Len(snn.neuron_thresholds) = num_neurons(snn)
    /\ Len(snn.neuron_leaks) = num_neurons(snn)
    /\ Len(snn.neuron_reset_states) = num_neurons(snn)
    /\ Len(snn.neuron_states) = num_neurons(snn)
    /\ Len(snn.neuron_refractory_periods) = num_neurons(snn)
    /\ Len(snn.neuron_refractory_periods_state) = num_neurons(snn)
    /\ \A n \in 1..num_neurons(snn) :
          /\ snn.neuron_leaks[n] >= 0
          /\ snn.neuron_refractory_periods_state[n] >= 0
          /\ snn.neuron_refractory_periods_state[n]
                 <= Max2(snn.neuron_refractory_periods[n], CreatedAs(n).refractory_state)

\* C27's case: after a run, a reset and a delayed synapse that added a relay,
\* a further run leaves a neuron armed with its whole period
C27_Witness ==
    /\ Len(snn.spike_train) > 0
    /\ now > Len(snn.spike_train)
    /\ Len(created) = 1 /\ created[1].delay = 2
    /\ \E n \in 1..num_neurons(snn) :
          /\ snn.neuron_refractory_periods[n] = 2
          /\ snn.neuron_refractory_periods_state[n] = 2
    /\ num_neurons(snn) = 3

\* a step of a simulate call that returns, having run now' - now ticks: the
\* log is the one before with one vector for each of these ticks, in order,
\* the vector of a tick being its raw decisions with the refractory neurons
\* set to 0
SpikeTrainLogStep ==
    (err' = "" /\ now' > now) =>
        /\ Len(snn'.spike_train) = Len(snn.spike_train) + (now' - now)
        /\ \A k \in 1..Len(snn.spike_train) : snn'.spike_train[k] = snn.spike_train[k]
        /\ \A i \in 1..(now' - now) :
              LET v == snn'.spike_train[Len(snn.spike_train) + i]
                  r == trace'[now + i]
              IN  /\ Len(v) = num_neurons(snn')
                  /\ \A n \in 1..Len(v) :
                        /\ v[n] \in {0, 1}
                        /\ v[n] = IF r.refractory_in[n] > 0 THEN 0 ELSE r.raw[n]

\* C28: spike-train log.  A successful simulate(T) appends exactly T entries
\* to spike_train, one per tick in tick order, each a 0/1 vector of length
\* num_neurons that is the post-gate spike vector of its tick; the entries
\* of earlier ticks and calls are neither modified nor removed by simulate.
C28_SpikeTrainLog == [][SpikeTrainLogStep]_vars

\* C28's case: a second call on a log that holds entries, one of them a tick
\* in which a refractory neuron decided to fire and was logged as 0 beside a
\* neuron logged as 1
C28_Witness ==
    /\ err = ""
    /\ Len(snn.spike_train) = 3
    /\ now = 3
    /\ \E k \in 1..2 : \E n, f \in 1..Len(snn.spike_train[k]) :
          /\ TickOf(k).raw[n] = 1
          /\ snn.spike_train[k][n] = 0
          /\ snn.spike_train[k][f] = 1

\* a step of a create_synapse call that returns, c being its record in
\* created: with delay d the object gains the relay neurons N..N+d-2 and the
\* synapses S..S+d-1, N and S being the counts before the call
ChainExpansionStep ==
    Len(created') = Len(created) + 1 =>
        LET c == created'[Len(created')]
            d == c.delay
            N == num_neurons(snn)
            S == num_synapses(snn)
            last == S + d
        IN  /\ num_neurons(snn') = N + d - 1
            /\ num_synapses(snn') = S + d
            /\ \A i \in 1..(d - 1) :
                  /\ snn'.pre_synaptic_neuron_ids[S + i] = IF i = 1 THEN c.pre_id ELSE N + i - 2
                  /\ snn'.post_synaptic_neuron_ids[S + i] = N + i - 1
                  /\ snn'.synaptic_weights[S + i] = 1
                  /\ snn'.synaptic_delays[S + i] = 1
                  /\ snn'.enable_stdp[S + i] = FALSE
            /\ snn'.pre_synaptic_neuron_ids[last] = IF d = 1 THEN c.pre_id ELSE N + d - 2
            /\ snn'.post_synaptic_neuron_ids[last] = c.post_id
            /\ snn'.synaptic_weights[last] = c.weight
            /\ snn'.enable_stdp[last] = c.stdp_enabled
            /\ create_synapse_return(snn') = last - 1
            /\ \A s \in 1..S :
                  /\ snn'.pre_synaptic_neuron_ids[s] = snn.pre_synaptic_neuron_ids[s]
                  /\ snn'.post_synaptic_neuron_ids[s] = snn.post_synaptic_neuron_ids[s]

\* C29: chain expansion structure.  A successful create_synapse(pre, post,
\* weight=w, delay=d, stdp_enabled=f) with d > 1 adds exactly d - 1 neurons
\* and d synapses; the relays get the next d - 1 ids; the first d - 1 new
\* synapses have weight 1, delay 1 and stdp_enabled false and form the path
\* pre -> relay_1 -> ... -> relay_{d-1}; the last one is relay_{d-1} -> post
\* with weight w and stdp_enabled f and is the synapse returned; with d = 1
\* no neuron and exactly one synapse is added.
C29_ChainExpansion == [][ChainExpansionStep]_vars

\* C29's case: a synapse of delay 3 with stdp_enabled true was created after
\* a direct one, on a model that since holds its two relays and three
\* synapses
C29_Witness ==
    /\ Len(created) = 2
    /\ created[1].delay = 1
    /\ created[2].delay = 3 /\ created[2].stdp_enabled
    /\ num_neurons(snn) = created[2].neurons + 2
    /\ num_synapses(snn) = 4
    /\ snn.enable_stdp[4] /\ ~snn.enable_stdp[3]
    /\ snn.pre_synaptic_neuron_ids[4] = num_neurons(snn) - 1

\* the relay neurons of the c-th create_synapse call, as indices of the
\* neuron lists: the delay - 1 neurons created after the neurons before it
RelaysOf(c) == (created[c].neurons + 1)..(created[c].neurons + created[c].delay - 1)

\* every relay neuron has threshold 0, reset state 0, refractory period 0,
\* initial state 0 and the given leak
RelayParameters(leak) ==
    \A c \in 1..Len(created) : \A n \in RelaysOf(c) :
        /\ snn.neuron_thresholds[n] = 0
        /\ snn.neuron_leaks[n] = leak
        /\ snn.neuron_reset_states[n] = 0
        /\ snn.neuron_refractory_periods[n] = 0
        /\ snn.neuron_refractory_periods_state[n] = 0
        /\ snn.neuron_states[n] = 0

\* C30 as stated: relay neuron parameters.  Every relay neuron created by
\* create_synapse with a delay above 1 has threshold 0, leak 0 and
\* reset_state 0 (and refractory_period 0, initial state 0).
C30_RelayParametersAsStated == RelayParameters(0)

\* C30, amended: the same, with leak +infinity, the default of create_neuron.
C30_RelayParameters == RelayParameters(Inf)

\* C30's case: a synapse of delay 3 has been created and its two relays are
\* the last neurons of the model
C30_Witness ==
    \E c \in 1..Len(created) :
        /\ created[c].delay = 3
        /\ created[c].neurons + 2 = num_neurons(snn)
        /\ \A n \in RelaysOf(c) : snn.neuron_leaks[n] = Inf

\* a step of a simulate call that returns after T = now' - now ticks: the
\* canonical states and refractory states are those the last tick ended
\* with, and the input schedule has lost its entries below T and holds the
\* others under their tick minus T
TeardownStep ==
    (err' = "" /\ now' > now) =>
        LET T == now' - now
            r == trace'[now']
            logged == snn'.spike_train[Len(snn'.spike_train)]
        IN  /\ \A n \in 1..num_neurons(snn) :
                  /\ snn'.neuron_states[n]
                         = IF logged[n] = 1 THEN snn.neuron_reset_states[n]
                           ELSE r.integrated[n]
                  /\ snn'.neuron_refractory_periods_state[n]
                         = IF logged[n] = 1 THEN snn.neuron_refractory_periods[n]
                           ELSE IF r.refractory_in[n] > 0 THEN r.refractory_in[n] - 1
                           ELSE r.refractory_in[n]
            /\ DOMAIN snn'.input_spikes
                   = {t - T : t \in {u \in DOMAIN snn.input_spikes : u >= T}}
            /\ \A t \in DOMAIN snn'.input_spikes :
                   snn'.input_spikes[t] = snn.input_spikes[t + T]

\* C31: teardown on every backend.  At the end of a simulate(T) call without
\* manual setup each driver (cpu, jit, gpu) writes the neuron states and the
\* refractory states back to the canonical model and consumes the input
\* schedule: the entries of a tick below T are removed and the others are
\* shifted by T; after simulate(T, use='gpu') no input spike scheduled at a
\* tick below T is left in input_spikes.
C31_Teardown == [][TeardownStep]_vars

\* the same step on the cpu driver
TeardownStepCpu == last_used_backend' = "cpu" => TeardownStep

\* what the code keeps of C31: the teardown of the cpu driver
C31_TeardownCpu == [][TeardownStepCpu]_vars

\* C32 (manual setup frame), one step: a simulate call on the cpu backend under
\* manual setup starts its first tick from the dense arrays the object holds
\* (internal states, refractory counters, weights, last spike vector, and row 0
\* of _input_spikes rather than the schedule), and leaves every canonical field
\* but spike_train as it was; the dense arrays it leaves are the ones the last
\* tick ended with; between simulate calls the dense arrays change only when
\* setup() rebuilds them
ManualFrameStep ==
    /\ (snn.manual_setup /\ now' > now) =>
          LET first == trace'[now + 1]
              last == trace'[now']
              a == snn.arrays
              logged == snn'.spike_train[Len(snn'.spike_train)]
          IN  /\ first.before = a.d.internal_states
              /\ first.refractory_in = a.d.neuron_refractory_periods
              /\ first.weights_in = a.d.weights
              /\ first.input = a.input_spikes[0]
              /\ first.synaptic =
                    [n \in 1..num_neurons(snn) |-> synaptic_input(a.d.weights, a.d.spikes, n)]
              /\ snn' = [snn EXCEPT !.spike_train = snn'.spike_train,
                                    !.arrays = snn'.arrays]
              /\ snn'.arrays.input_spikes = a.input_spikes
              /\ Len(snn'.spike_train) = Len(snn.spike_train) + (now' - now)
              /\ err' = "" =>
                    /\ snn'.arrays.d.weights = last.weights_out
                    /\ snn'.arrays.d.spikes = logged
                    /\ \A n \in 1..num_neurons(snn) :
                          /\ snn'.arrays.d.internal_states[n] =
                                IF logged[n] = 1 THEN a.d.neuron_reset_states[n]
                                ELSE last.integrated[n]
                          /\ snn'.arrays.d.neuron_refractory_periods[n] =
                                IF logged[n] = 1 THEN a.d.neuron_refractory_periods_original[n]
                                ELSE IF last.refractory_in[n] > 0 THEN last.refractory_in[n] - 1
                                ELSE last.refractory_in[n]
    /\ (snn.arrays.built /\ now' = now /\ snn'.arrays.d # snn.arrays.d) =>
          snn'.arrays.d = kept_arrays(setup(snn))

C32_ManualFrame == [][ManualFrameStep]_vars

\* C32, the case: three ticks in at least two manual simulate calls over two
\* rows of _input_spikes (tick 3 replays row 0), the second call starting from
\* dense states, refractory counters and weights that differ from the canonical
\* lists
C32_Witness ==
    /\ snn.manual_setup
    /\ err = ""
    /\ now = 3
    /\ DOMAIN snn.arrays.input_spikes = 0..1
    /\ snn.arrays.input_spikes[0] # snn.arrays.input_spikes[1]
    /\ trace[2].input = snn.arrays.input_spikes[1]
    /\ trace[3].input = snn.arrays.input_spikes[0]
    /\ trace[3].before # snn.neuron_states
    /\ trace[3].refractory_in # snn.neuron_refractory_periods_state
    /\ num_synapses(snn) = 1
    /\ trace[3].weights_in[1][2] # snn.synaptic_weights[1]

\* a synapse from neuron id i to neuron id j is in the canonical lists
Connected(i, j) ==
    \E s \in 1..num_synapses(snn) :
        /\ snn.pre_synaptic_neuron_ids[s] = i
        /\ snn.post_synaptic_neuron_ids[s] = j

\* C33: STDP never creates connections.  At every tick of every simulate call,
\* the weight matrix has 0, before and after the tick's STDP update, at every
\* ordered pair of neurons that no synapse joins, and the synaptic contribution
\* to a neuron is the sum over the neurons joined to it by a synapse only.
C33_NoNewConnections ==
    \A k \in 1..Len(snn.spike_train) :
        \A j \in 0..(num_neurons(snn) - 1) :
            /\ \A i \in 0..(num_neurons(snn) - 1) :
                  ~Connected(i, j) =>
                      /\ TickOf(k).weights_in[i + 1][j + 1] = 0
                      /\ TickOf(k).weights_out[i + 1][j + 1] = 0
            /\ TickOf(k).synaptic[j + 1]
                 = SumUpTo([i \in 1..num_neurons(snn) |->
                              IF Connected(i - 1, j)
                              THEN TickOf(k).weights_in[i][j + 1] * LoggedBefore(k)[i]
                              ELSE 0],
                           num_neurons(snn))

\* C33's case: STDP changes the weight of a synapse at a tick at which an
\* unconnected ordered pair (i, j) spiked in causal order (i at the tick
\* before, j at this tick), with a positive and a negative update both on
C33_Witness ==
    \E k \in 2..Len(snn.spike_train) :
        /\ TickOf(k).lags > 0
        /\ snn.stdp_positive_update /\ AnyNonZero(snn.stdp_Apos)
        /\ snn.stdp_negative_update /\ AnyNonZero(snn.stdp_Aneg)
        /\ TickOf(k).weights_out # TickOf(k).weights_in
        /\ \E i, j \in 0..(num_neurons(snn) - 1) :
              /\ i # j
              /\ ~Connected(i, j)
              /\ snn.spike_train[k - 1][i + 1] = 1
              /\ snn.spike_train[k][j + 1] = 1

\* C34: several input spikes on the same neuron and tick.  At a tick for which
\* add_spike was called more than once with the same neuron, the integrate
\* stage adds to the neuron's leaked state the value of the last of those calls
\* (and the synaptic contribution), not the sum of their values.
C34_LastSpikeWins ==
    \A k \in 0..(now - 1) : \A n \in 0..(num_neurons(snn) - 1) :
        Len(ScheduledFor(k, n)) >= 2 =>
            trace[k + 1].integrated[n + 1]
                = StatedLeak(trace[k + 1].before[n + 1], snn.neuron_reset_states[n + 1],
                             snn.neuron_leaks[n + 1])
                  + ScheduledFor(k, n)[Len(ScheduledFor(k, n))][2]
                  + trace[k + 1].synaptic[n + 1]

\* C34's case: add_spike(1, 0, 3) and then add_spike(1, 0, 1); at tick 1 neuron 0
\* integrates to 1, neither the sum 4 nor the larger value 3
C34_Witness ==
    /\ now >= 2
    /\ ScheduledFor(1, 0) = << <<0, 3>>, <<0, 1>> >>
    /\ trace[2].before[1] = 0
    /\ trace[2].integrated[1] = 1

\* a step of reset(): the log was not empty and is empty afterwards; every
\* internal state and refractory state is 0 and nothing else has changed
ResetStep ==
    (Len(snn.spike_train) > 0 /\ snn'.spike_train = << >>) =>
        /\ \A n \in 1..num_neurons(snn) :
              /\ snn'.neuron_states[n] = 0
              /\ snn'.neuron_refractory_periods_state[n] = 0
        /\ snn' = [snn EXCEPT !.neuron_states = snn'.neuron_states,
                              !.neuron_refractory_periods_state =
                                  snn'.neuron_refractory_periods_state,
                              !.spike_train = << >>]

\* the first tick of a simulate call that starts on an empty log has no
\* synaptic contribution and no STDP update
FirstTickOnEmptyLog ==
    LET r == trace'[now + 1]
    IN  /\ \A n \in 1..num_neurons(snn) : r.synaptic[n] = 0
        /\ r.lags = 0
        /\ r.weights_out = r.weights_in

\* C35 as stated: reset() sets every internal state and refractory state to 0
\* and empties spike_train, leaving parameters, synapses, weights, STDP
\* parameters and input_spikes unchanged, and the first tick of the next
\* simulate receives no synaptic contribution from spikes fired before the
\* reset and applies no STDP update.
C35_ResetAsStated ==
    [][ResetStep /\ ((Len(snn.spike_train) = 0 /\ now' > now) => FirstTickOnEmptyLog)]_vars

\* C35, amended: the same, the first tick being that of the next simulate
\* without manual setup.
C35_Reset ==
    [][ResetStep /\ ((Len(snn.spike_train) = 0 /\ now' > now /\ ~snn.manual_setup)
                        => FirstTickOnEmptyLog)]_vars

\* C35's case, without manual setup: neuron 0 fired at the last tick before a
\* reset and has an STDP-enabled synapse to neuron 1, whose reset state is 1;
\* the next call's first tick starts from states 0 and refractory counters 0
\* and gives neuron 1 no synaptic contribution
C35_Witness ==
    LET r == now - Len(snn.spike_train)
    IN  /\ ~snn.manual_setup
        /\ r >= 1
        /\ Len(snn.spike_train) >= 1
        /\ trace[r].raw[1] = 1 /\ trace[r].refractory_in[1] = 0
        /\ snn.neuron_refractory_periods[1] = 2
        /\ Connected(0, 1)
        /\ snn.enable_stdp[1]
        /\ stdp_time_steps(snn) = 2
        /\ snn.neuron_reset_states[2] = 1
        /\ trace[r + 1].before = <<0, 0>>
        /\ trace[r + 1].refractory_in = <<0, 0>>
        /\ trace[r + 1].synaptic[2] = 0
        /\ err = ""
=============================================================================
